---- MODULE Spec2Model ----
(***************************************************************************)
(* A model of the MyDay agent: the x402 payment middleware, the verifier   *)
(* micro-service, the /x402/stake gateway, the Telegram bot's Mission      *)
(* Briefing flow and the per-minute scheduler.  Every subsystem has its    *)
(* own specification (SpecX402, SpecVerify, SpecStake, SpecBot, SpecSched) *)
(* over the module's variables; a specification leaves the variables of    *)
(* the other subsystems at their initial values.                           *)
(*                                                                         *)
(* Amounts are counted in thousandths of a cUSD (0.10 cUSD = 100), so the  *)
(* 18-decimal on-chain integers fit TLC's integers.                        *)
(***************************************************************************)
EXTENDS Integers, Sequences, FiniteSets, TLC

VARIABLES
    gate,                    \* x402: the request in hand and the gate's answer
    processed_transactions,  \* verifier: rows of the local store's table
    vault_balance,           \* verifier: users.vault_balance (local store)
    vreq,                    \* verifier: the requests in flight
    creditLog,               \* verifier: history of creditUserVault calls
    daily_logs,              \* gateway: rows of the remote store's daily_logs
    remote_balance,          \* gateway: users.vault_balance (remote store)
    sreq,                    \* gateway: the /x402/stake requests in flight
    stakeStore,              \* gateway: whether the remote store is configured
    stakeCredits,            \* gateway: history of creditUserVault calls
    userFlowState,           \* bot: this.userFlowState
    userMissionState,        \* bot: this.userMissionState
    userRow,                 \* bot: the user's row in the remote store's users table
    botLogs,                 \* bot: the daily_logs rows the bot has written
    handlers,                \* bot: invocations of the handlers that await the store
    briefings,               \* bot: Mission state objects created so far
    selfProtocol,            \* bot: the revision of verifier/selfProtocol.js loaded
    attested,                \* server: POST /api/verify has answered 200 for the user
    now,                     \* scheduler: the server clock, minutes since Sunday 00:00 UTC
    ticks,                   \* scheduler: ticks taken so far
    lastTriggered,           \* scheduler: the in-memory lastTriggered map
    pendingSunset,           \* scheduler: bot._pendingSunset
    nudges,                  \* scheduler: history of handler invocations
    startup,                 \* server: where main() is and what it has started
    healthAnswers,           \* server: the answers GET /health requests have had
    local_users,             \* local store: telegram ids that have a users row
    daily_summary,           \* local store: rows of daily_summary, in rowid order
    daily_missions,          \* local store: rows of daily_missions, in rowid order
    lcalls,                  \* local store: the method calls made, in call order
    sqlite,                  \* local store: the connection, its schema and statements
    readyPromise,            \* local store: this.readyPromise
    queries,                 \* local store: the callers' statements that have run
    credits,                 \* both stores: the creditUserVault calls made for the user
    remote_logs,             \* remote store: the daily_logs rows of the user, in insertion order
    scoreDay,                \* remote store: the current date, as a day number
    apiDb,                   \* server: the remote store the API routes use, or "null"
    scoreAnswers,            \* server: the answers the discipline-score routes have given
    mcpVault,                \* MCP server: process.env.VAULT_ADDRESS, "" when unset
    mcpExchange,             \* MCP server: the last POST /mcp request and its answer
    stdioLines,              \* stdio MCP server: the input lines read so far
    stdioPending,            \* stdio MCP server: the lines whose tool call is awaited
    stdout,                  \* stdio MCP server: the lines written to standard output
    stderr,                  \* stdio MCP server: the lines written to standard error
    chatReplies,             \* bot: what each handler run that met an exception did about it
    remoteDb,                \* remote store: client, ready and readyPromise of the instance
    remoteCalls,             \* remote store: the method calls made on the instance and how they ended
    keysFile,                \* data/selfclaw-keys.json
    nextKeypair,             \* number of the next generated keypair
    keyRemovals,             \* deletions of the key file by others
    keyProcs,                \* run -> position in loadOrCreateKeypair
    keyLog,                  \* finished loadOrCreateKeypair calls
    weeklyData,              \* argument of analyzeDisciplineMoodCorrelation
    correlation,             \* its result
    todayMissions,           \* bot: the number of missions getTodayMissions returns
    audit                    \* bot: the run of handleMissionAudit

vars == <<gate, processed_transactions, vault_balance, vreq, creditLog,
          daily_logs, remote_balance, sreq, stakeStore, stakeCredits,
          userFlowState, userMissionState, userRow, botLogs, handlers, briefings,
          selfProtocol, attested, now, ticks, lastTriggered, pendingSunset, nudges,
          startup, healthAnswers, local_users, daily_summary, daily_missions,
          lcalls, sqlite, readyPromise, queries, credits,
          remote_logs, scoreDay, apiDb, scoreAnswers,
          mcpVault, mcpExchange,
          stdioLines, stdioPending, stdout, stderr,
          chatReplies,
          remoteDb, remoteCalls,
          keysFile, nextKeypair, keyRemovals, keyProcs, keyLog,
          weeklyData, correlation,
          todayMissions, audit>>

x402Vars == <<gate>>
verifyVars == <<processed_transactions, vault_balance, vreq, creditLog>>
stakeVars == <<daily_logs, remote_balance, sreq, stakeStore, stakeCredits>>
botVars == <<userFlowState, userMissionState, userRow, botLogs, handlers, briefings,
             selfProtocol, attested>>
schedVars == <<now, ticks, lastTriggered, pendingSunset, nudges>>
hostVars == <<startup, healthAnswers>>
localVars == <<local_users, daily_summary, daily_missions, lcalls>>
readyVars == <<sqlite, readyPromise, queries>>
creditVars == <<credits>>
scoreVars == <<remote_logs, scoreDay, apiDb, scoreAnswers>>
mcpVars == <<mcpVault, mcpExchange>>
stdioVars == <<stdioLines, stdioPending, stdout, stderr>>
catchVars == <<chatReplies>>
degradedVars == <<remoteDb, remoteCalls>>
keyVars == <<keysFile, nextKeypair, keyRemovals, keyProcs, keyLog>>
corrVars == <<weeklyData, correlation>>
auditVars == <<todayMissions, audit>>

(***************************************************************************)
(* Bounds of the model.                                                    *)
(***************************************************************************)
MaxLogs == 2               \* logs in one receipt
MaxVerifyRequests == 2     \* POST /api/verify requests the verifier receives
MaxStakeRequests == 2      \* GET /x402/stake requests the gateway receives
MaxHandlers == 2           \* invocations of the bot's awaiting handlers
MaxBriefings == 1          \* Mission Briefings a user begins
MaxTicks == 60             \* scheduler ticks in one run

Undef == "undefined"

(***************************************************************************)
(* x402 middleware: constants.                                             *)
(***************************************************************************)
CELO_CUSD_ADDRESS == "0x765DE816845861e75A25fCA122bb6898B8B1282a"
CELO_CHAIN_ID == 42220
CELO_NETWORK == "eip155:42220"
TRANSFER_EVENT_TOPIC == "Transfer(address,address,uint256)"

VaultAddr == "0xvault"
OtherAddr == "0xother"
PayerAddr == "0xpayer"
OtherToken == "0xtokenX"

(***************************************************************************)
(* The chain as the RPC node reports it.  A log has its emitting contract, *)
(* topics[0], the number of topics, the addresses in topics[1] and         *)
(* topics[2], and its data: a uint256, or empty ("0x", as in an ERC-721    *)
(* Transfer, whose token id is a fourth topic).                            *)
(***************************************************************************)
Erc20Transfers ==
    [address : {CELO_CUSD_ADDRESS, OtherToken}, topic0 : {TRANSFER_EVENT_TOPIC},
     ntopics : {3}, from : {PayerAddr}, to : {VaultAddr, OtherAddr},
     dataEmpty : {FALSE}, data : {50, 99}]

OtherLogs ==
    { [address |-> CELO_CUSD_ADDRESS, topic0 |-> TRANSFER_EVENT_TOPIC, ntopics |-> 3,
       from |-> PayerAddr, to |-> VaultAddr, dataEmpty |-> FALSE, data |-> 0],
      [address |-> CELO_CUSD_ADDRESS, topic0 |-> "Approval(address,address,uint256)",
       ntopics |-> 3, from |-> PayerAddr, to |-> VaultAddr, dataEmpty |-> FALSE,
       data |-> 99],
      [address |-> CELO_CUSD_ADDRESS, topic0 |-> TRANSFER_EVENT_TOPIC, ntopics |-> 2,
       from |-> PayerAddr, to |-> VaultAddr, dataEmpty |-> FALSE, data |-> 99],
      [address |-> OtherToken, topic0 |-> TRANSFER_EVENT_TOPIC, ntopics |-> 4,
       from |-> PayerAddr, to |-> VaultAddr, dataEmpty |-> TRUE, data |-> 0] }

LogSpace == Erc20Transfers \cup OtherLogs

LogSeqs == UNION {[1..n -> LogSpace] : n \in 0..MaxLogs}

\* What provider.getTransaction resolves to: it throws, or null, or a transaction.
TxResults ==
    [kind : {"throw", "null"}, to : {Undef}, value : {0}, from : {Undef}]
    \cup [kind : {"tx"}, to : {VaultAddr, OtherAddr}, value : {0, 100}, from : {PayerAddr}]

\* What provider.getTransactionReceipt resolves to.
ReceiptResults ==
    [kind : {"throw", "null"}, status : {0}, logs : {<<>>}, blockNumber : {0}]
    \cup [kind : {"receipt"}, status : {0, 1}, logs : LogSeqs, blockNumber : {7}]

ExpectedAmounts == {0, 100, 101, 110}

(***************************************************************************)
(* verifyPayment (middleware.js 71-148).                                   *)
(***************************************************************************)
\* One iteration of the loop over receipt.logs: acc is
\* [transferAmount, senderAddress, threw].
ScanLog(acc, log, vault) ==
    IF acc.threw THEN acc
    ELSE IF log.ntopics < 3 THEN acc
    ELSE IF log.topic0 # TRANSFER_EVENT_TOPIC THEN acc
    ELSE IF log.to # vault THEN acc
    ELSE IF log.dataEmpty THEN [acc EXCEPT !.threw = TRUE]   \* BigInt("0x") throws
    ELSE [acc EXCEPT !.transferAmount = @ + log.data, !.senderAddress = log.from]

RECURSIVE ScanLogs(_, _, _, _)
ScanLogs(acc, logs, i, vault) ==
    IF i > Len(logs) THEN acc
    ELSE ScanLogs(ScanLog(acc, logs[i], vault), logs, i + 1, vault)

\* The comparison without the 1% tolerance.
BelowToleranceNoSlack(transferAmount, expectedAmount) ==
    transferAmount < expectedAmount

\* transferAmount < expectedAmount * 0.99
BelowTolerance(transferAmount, expectedAmount) ==
    100 * transferAmount < 99 * expectedAmount

VpResult(outcome, valid, amount, from, error, carries, expected, received, txHash, blockNumber) ==
    [outcome |-> outcome, valid |-> valid, amount |-> amount, from |-> from,
     error |-> error, carries |-> carries, expected |-> expected,
     received |-> received, txHash |-> txHash, blockNumber |-> blockNumber]

VpFail(error, from) == VpResult("return", FALSE, 0, from, error, FALSE, 0, 0, "", 0)

\* The native-currency fallback (middleware.js 122-128).
NativeFallback(transferAmount, tx, vault) ==
    IF transferAmount = 0 /\ tx.to # Undef /\ tx.to = vault /\ tx.value > 0
    THEN tx.value ELSE transferAmount

verifyPayment(txHash, vaultAddress, expectedAmount, tx, receipt) ==
    IF tx.kind = "throw" THEN VpFail("rpc_error", "")
    ELSE IF tx.kind = "null" THEN VpFail("tx_not_found", "")
    ELSE IF receipt.kind = "throw" THEN VpFail("receipt_error", tx.from)
    ELSE IF receipt.kind = "null" \/ receipt.status # 1 THEN VpFail("tx_failed", tx.from)
    ELSE
      LET scan == ScanLogs([transferAmount |-> 0, senderAddress |-> tx.from, threw |-> FALSE],
                           receipt.logs, 1, vaultAddress)
          amount == NativeFallback(scan.transferAmount, tx, vaultAddress)
      IN IF scan.threw
         THEN VpResult("throw", FALSE, 0, "", "SyntaxError", FALSE, 0, 0, "", 0)
         ELSE IF BelowTolerance(amount, expectedAmount)
         THEN VpResult("return", FALSE, amount, scan.senderAddress, "insufficient_amount",
                       TRUE, expectedAmount, amount, "", 0)
         ELSE VpResult("return", TRUE, amount, scan.senderAddress, "", FALSE, 0, 0,
                       txHash, receipt.blockNumber)

(***************************************************************************)
(* JSON as the gate uses it.  A JavaScript value is a record [t, s, n, o]: *)
(* a string (s, or the decimal digits of n when s is empty), a number n,   *)
(* undefined, or an object o, a sequence of <<key, value>> members in      *)
(* insertion order.  JSON.stringify leaves out the members whose value is  *)
(* undefined; JSON.parse gives the members back.                           *)
(***************************************************************************)
JsStr(s) == [t |-> "string", s |-> s, n |-> 0, o |-> <<>>]
JsDigits(n) == [t |-> "string", s |-> "", n |-> n, o |-> <<>>]
JsNum(n) == [t |-> "number", s |-> "", n |-> n, o |-> <<>>]
JsUndef == [t |-> "undefined", s |-> "", n |-> 0, o |-> <<>>]
JsObj(members) == [t |-> "object", s |-> "", n |-> 0, o |-> members]

RECURSIVE StringifyMembers(_)
JSONStringify(v) ==
    IF v.t = "object" THEN [text |-> "object", members |-> StringifyMembers(v.o), lit |-> v]
    ELSE [text |-> "literal", members |-> <<>>, lit |-> v]

StringifyMembers(ms) ==
    IF ms = <<>> THEN <<>>
    ELSE LET m == Head(ms)
         IN IF m[2].t = "undefined" THEN StringifyMembers(Tail(ms))
            ELSE <<  <<m[1], JSONStringify(m[2])>>  >> \o StringifyMembers(Tail(ms))

RECURSIVE ParseMembers(_)
JSONParse(txt) ==
    IF txt.text = "object" THEN JsObj(ParseMembers(txt.members))
    ELSE txt.lit

ParseMembers(ms) ==
    IF ms = <<>> THEN <<>>
    ELSE <<  <<Head(ms)[1], JSONParse(Head(ms)[2])>>  >> \o ParseMembers(Tail(ms))

\* obj[key] of a parsed object (undefined when there is no such member).
RECURSIVE Member(_, _)
Member(ms, key) ==
    IF ms = <<>> THEN JsUndef
    ELSE IF Head(ms)[1] = key THEN Head(ms)[2]
    ELSE Member(Tail(ms), key)

(***************************************************************************)
(* buildPaymentRequirements (middleware.js 33-60).                         *)
(***************************************************************************)
MaxTimeoutSeconds == 600

buildPaymentRequirements(payTo, amount, resource, description, extra) ==
    JsObj(<< <<"scheme", JsStr("exact")>>,
             <<"network", JsStr(CELO_NETWORK)>>,
             <<"maxAmountRequired", amount>>,
             <<"resource", resource>>,
             <<"description", JsStr(description)>>,
             <<"mimeType", JsStr("application/json")>>,
             <<"payTo", JsStr(payTo)>>,
             <<"maxTimeoutSeconds", JsNum(MaxTimeoutSeconds)>>,
             <<"asset", JsStr(CELO_CUSD_ADDRESS)>>,
             <<"extra", JsObj(<< <<"chainId", JsNum(CELO_CHAIN_ID)>>,
                                 <<"name", JsStr("cUSD")>>,
                                 <<"version", JsStr("1.0")>> >> \o extra)>> >>)

(***************************************************************************)
(* The X-PAYMENT request header.  It is absent (or empty), or a string     *)
(* that starts with 0x, or another string, which the gate base64-decodes   *)
(* and hands to JSON.parse: that throws (not JSON), or gives null, a       *)
(* number, or an object with any of the members txHash, tx_hash, hash.     *)
(***************************************************************************)
PaymentHeaders ==
    [kind : {"absent"}, raw : {""}, txHash : {Undef}, tx_hash : {Undef}, hash : {Undef}]
    \cup [kind : {"raw"}, raw : {"0xa"}, txHash : {Undef}, tx_hash : {Undef}, hash : {Undef}]
    \cup [kind : {"notjson", "null", "number"}, raw : {""}, txHash : {Undef},
          tx_hash : {Undef}, hash : {Undef}]
    \cup [kind : {"object"}, raw : {""}, txHash : {Undef, "0xa"},
          tx_hash : {Undef, "", "0xb"}, hash : {Undef, "0xc"}]

Truthy(x) == x # Undef /\ x # ""

\* a || b || c
FirstTruthy(a, b, c) == IF Truthy(a) THEN a ELSE IF Truthy(b) THEN b ELSE c

\* The try block of middleware.js 198-209: paymentData, or "throw".
ParsePaymentHeader(h) ==
    IF h.kind = "raw"
    THEN [outcome |-> "object", txHash |-> h.raw, tx_hash |-> Undef, hash |-> Undef]
    ELSE IF h.kind = "notjson"
    THEN [outcome |-> "throw", txHash |-> Undef, tx_hash |-> Undef, hash |-> Undef]
    ELSE [outcome |-> h.kind, txHash |-> h.txHash, tx_hash |-> h.tx_hash, hash |-> h.hash]

\* paymentData.txHash || paymentData.tx_hash || paymentData.hash (middleware.js
\* 211): reading a member of null throws a TypeError, a number has no members.
ExtractTxHash(paymentData) ==
    IF paymentData.outcome = "null" THEN "TypeError"
    ELSE IF paymentData.outcome = "number" THEN Undef
    ELSE FirstTruthy(paymentData.txHash, paymentData.tx_hash, paymentData.hash)

\* The value handed to res.set('X-PAYMENT-REQUIRED', ...) (middleware.js 187).
\* The header set from the object itself instead of its serialisation.
PaymentRequiredHeaderCoerced(requirements) ==
    [text |-> "literal", members |-> <<>>, lit |-> JsStr("[object Object]")]

\* res.set('X-PAYMENT-REQUIRED', JSON.stringify(requirements))
PaymentRequiredHeader(requirements) == JSONStringify(requirements)

NoText == [text |-> "none", members |-> <<>>, lit |-> JsUndef]
NoX402 == [verified |-> FALSE, txHash |-> "", amount |-> 0, from |-> "", blockNumber |-> 0]

GateResponse(status, error, reason, hdr, body, nextCalled, x402) ==
    [status |-> status, error |-> error, reason |-> reason, xPaymentRequired |-> hdr,
     body |-> body, nextCalled |-> nextCalled, x402 |-> x402]

\* A response that only carries a status and an error code.
GateError(status, error, reason) ==
    GateResponse(status, error, reason, NoText, NoText, FALSE, NoX402)

\* The exception escapes the async middleware: no response is sent by it.
GateThrows == GateResponse(0, "unhandled", "", NoText, NoText, FALSE, NoX402)

(***************************************************************************)
(* x402PaymentGate (middleware.js 165-238).  opts is {amount, resource,    *)
(* description}; vault is process.env.VAULT_ADDRESS || ''.                 *)
(***************************************************************************)
x402PaymentGate(opts, header, vault, originalUrl, tx, receipt) ==
    IF vault = "" THEN GateError(503, "VAULT_ADDRESS not configured", "")
    ELSE IF header.kind = "absent"
    THEN LET requirements ==
                 buildPaymentRequirements(vault, JsDigits(opts.amount),
                     JsStr(IF Truthy(opts.resource) THEN opts.resource ELSE originalUrl),
                     opts.description, <<>>)
         IN GateResponse(402, "payment_required", "",
                PaymentRequiredHeader(requirements),
                JSONStringify(JsObj(<< <<"error", JsStr("payment_required")>>,
                                       <<"message", JsStr("This endpoint requires a payment")>>,
                                       <<"paymentRequirements", requirements>> >>)),
                FALSE, NoX402)
    ELSE LET paymentData == ParsePaymentHeader(header)
             txHash == ExtractTxHash(paymentData)
             result == verifyPayment(txHash, vault, opts.amount, tx, receipt)
         IN IF paymentData.outcome = "throw" THEN GateError(400, "invalid_payment_header", "")
            ELSE IF txHash = "TypeError" THEN GateThrows
            ELSE IF ~Truthy(txHash) THEN GateError(400, "missing_tx_hash", "")
            ELSE IF result.outcome = "throw" THEN GateThrows
            ELSE IF ~result.valid
            THEN GateError(402, "payment_verification_failed", result.error)
            ELSE GateResponse(200, "", "", NoText, NoText, TRUE,
                     [verified |-> TRUE, txHash |-> txHash, amount |-> result.amount,
                      from |-> result.from, blockNumber |-> result.blockNumber])

(***************************************************************************)
(* SpecX402: requests to an x402-gated route and to POST /x402/verify.     *)
(* gate holds the request in hand, what the RPC node answered for it, and  *)
(* the answer: resp for the gated route, vp for verifyPayment's result.    *)
(***************************************************************************)
GateOpts ==
    [amount : ExpectedAmounts, resource : {Undef, "/api/premium"},
     description : {"MyDay Guardian x402 protocol fee"}]

NoTx == [kind |-> "null", to |-> Undef, value |-> 0, from |-> Undef]
NoReceipt == [kind |-> "null", status |-> 0, logs |-> <<>>, blockNumber |-> 0]
NoVp == VpResult("none", FALSE, 0, "", "", FALSE, 0, 0, "", 0)
NoOpts == [amount |-> 0, resource |-> Undef, description |-> ""]
NoHeader == [kind |-> "absent", raw |-> "", txHash |-> Undef, tx_hash |-> Undef, hash |-> Undef]

GateIdle ==
    [phase |-> "idle", route |-> "", opts |-> NoOpts, header |-> NoHeader, vault |-> "",
     url |-> "", tx |-> NoTx, receipt |-> NoReceipt,
     resp |-> GateError(0, "", ""), vp |-> NoVp]

\* The receipts the gated route is exercised with: at most one log.
ShortReceipts == {r \in ReceiptResults : Len(r.logs) <= 1}

\* A request to a gated route without an X-PAYMENT header, or with no vault
\* configured: the RPC node is not consulted.
GateUnpaid ==
    /\ gate.phase = "idle"
    /\ \E opts \in GateOpts, header \in PaymentHeaders, vault \in {"", VaultAddr} :
         /\ header.kind = "absent" \/ vault = ""
         /\ gate' = [phase |-> "done", route |-> "gate", opts |-> opts, header |-> header,
                     vault |-> vault, url |-> "/api/premium?x=1", tx |-> NoTx,
                     receipt |-> NoReceipt,
                     resp |-> x402PaymentGate(opts, header, vault, "/api/premium?x=1",
                                              NoTx, NoReceipt),
                     vp |-> NoVp]

\* A request to a gated route that carries an X-PAYMENT header.
GatePaid ==
    /\ gate.phase = "idle"
    /\ \E opts \in GateOpts, header \in PaymentHeaders, tx \in TxResults,
          receipt \in ShortReceipts :
         /\ header.kind # "absent"
         /\ opts.resource = Undef
         /\ gate' = [phase |-> "done", route |-> "gate", opts |-> opts, header |-> header,
                     vault |-> VaultAddr, url |-> "/api/premium?x=1", tx |-> tx,
                     receipt |-> receipt,
                     resp |-> x402PaymentGate(opts, header, VaultAddr, "/api/premium?x=1",
                                              tx, receipt),
                     vp |-> NoVp]

\* POST /x402/verify {txHash, expectedAmount} (index.js 166-177) with a vault
\* configured: the answer is verifyPayment's result.
X402Verify ==
    /\ gate.phase = "idle"
    /\ \E expected \in ExpectedAmounts, tx \in TxResults, receipt \in ReceiptResults :
         gate' = [phase |-> "done", route |-> "verify",
                  opts |-> [amount |-> expected, resource |-> Undef, description |-> ""],
                  header |-> [NoHeader EXCEPT !.kind = "raw", !.raw = "0xa"],
                  vault |-> VaultAddr, url |-> "/x402/verify", tx |-> tx,
                  receipt |-> receipt, resp |-> GateError(0, "", ""),
                  vp |-> verifyPayment("0xa", VaultAddr, expected, tx, receipt)]

\* The request is answered; the server takes the next one.
GateDone ==
    /\ gate.phase = "done"
    /\ gate' = GateIdle

(***************************************************************************)
(* The chain the verifier and the gateway look transactions up on.         *)
(*   0xa  sends native value to the vault, no logs;                        *)
(*   0xb  calls the stablecoin, which logs a Transfer of 99 to the vault;  *)
(*   0xc  calls the stablecoin, which logs a Transfer of 50 elsewhere;     *)
(*   any other hash is unknown to the node.                                *)
(***************************************************************************)
ChainLog(to, data) ==
    [address |-> CELO_CUSD_ADDRESS, topic0 |-> TRANSFER_EVENT_TOPIC, ntopics |-> 3,
     from |-> PayerAddr, to |-> to, dataEmpty |-> FALSE, data |-> data]

ChainTx(h) ==
    IF h = "0xa" THEN [kind |-> "tx", to |-> VaultAddr, value |-> 100, from |-> PayerAddr]
    ELSE IF h \in {"0xb", "0xc"}
    THEN [kind |-> "tx", to |-> CELO_CUSD_ADDRESS, value |-> 0, from |-> PayerAddr]
    ELSE NoTx

ChainReceipt(h) ==
    IF h = "0xa" THEN [kind |-> "receipt", status |-> 1, logs |-> <<>>, blockNumber |-> 7]
    ELSE IF h = "0xb"
    THEN [kind |-> "receipt", status |-> 1, logs |-> <<ChainLog(VaultAddr, 99)>>, blockNumber |-> 7]
    ELSE IF h = "0xc"
    THEN [kind |-> "receipt", status |-> 1, logs |-> <<ChainLog(OtherAddr, 50)>>, blockNumber |-> 7]
    ELSE NoReceipt

\* The RPC node is reachable for a request, or it is not.
RpcTx(h, up) == IF up THEN ChainTx(h) ELSE [NoTx EXCEPT !.kind = "throw"]
RpcReceipt(h, up) == IF up THEN ChainReceipt(h) ELSE [NoReceipt EXCEPT !.kind = "throw"]

(***************************************************************************)
(* The local store (database/init.js): processed_transactions has          *)
(* tx_hash TEXT UNIQUE NOT NULL; the users table holds one user, KnownUser.*)
(***************************************************************************)
KnownUser == "7"
UnknownUser == "8"

hasProcessedTransaction(rows, txHash) ==
    \E i \in DOMAIN rows : rows[i].tx_hash = txHash

\* The INSERT on a table without the UNIQUE constraint.
recordProcessedTransactionNoUnique(rows, txHash, telegramUserId, amount) ==
    [ok |-> TRUE,
     rows |-> Append(rows, [tx_hash |-> txHash, user |-> telegramUserId, amount |-> amount])]

\* INSERT INTO processed_transactions: rejected when tx_hash is taken.
recordProcessedTransaction(rows, txHash, telegramUserId, amount) ==
    IF \E i \in DOMAIN rows : rows[i].tx_hash = txHash
    THEN [ok |-> FALSE, rows |-> rows]
    ELSE [ok |-> TRUE,
          rows |-> Append(rows, [tx_hash |-> txHash, user |-> telegramUserId, amount |-> amount])]

\* UPDATE users SET vault_balance = COALESCE(vault_balance, 0) + ? WHERE
\* telegram_user_id = ?: no row is touched for a user the table lacks.
creditUserVault(balance, telegramUserId, amount) ==
    IF telegramUserId = KnownUser THEN balance + amount ELSE balance

(***************************************************************************)
(* The verifier micro-service: POST /api/verify (apiVerifyHandler).  A     *)
(* request stops at each await that touches the store or the RPC node:     *)
(*   check -> rpc -> record -> credit -> done.                             *)
(***************************************************************************)
VerifyBodies ==
    { [tx_hash |-> "", telegramUserId |-> KnownUser, amount |-> 100],
      [tx_hash |-> "0xa", telegramUserId |-> Undef, amount |-> 100],
      [tx_hash |-> "0xa", telegramUserId |-> KnownUser, amount |-> 100],
      [tx_hash |-> "0xa", telegramUserId |-> KnownUser, amount |-> 250],
      [tx_hash |-> "0xb", telegramUserId |-> UnknownUser, amount |-> 100],
      [tx_hash |-> "0xb", telegramUserId |-> KnownUser, amount |-> 100],
      [tx_hash |-> "0xc", telegramUserId |-> KnownUser, amount |-> 100],
      [tx_hash |-> "0xd", telegramUserId |-> KnownUser, amount |-> 100] }

VReq(body, pc, status, error) ==
    [tx_hash |-> body.tx_hash, telegramUserId |-> body.telegramUserId,
     amount |-> body.amount, pc |-> pc, status |-> status, error |-> error]

VAnswer(r, status, error) == [r EXCEPT !.pc = "done", !.status = status, !.error = error]

\* The request arrives: 400 when tx_hash or telegramUserId is missing.
VerifyReceive ==
    /\ Len(vreq) < MaxVerifyRequests
    /\ \E body \in VerifyBodies :
         vreq' = Append(vreq,
                   IF ~Truthy(body.tx_hash) \/ ~Truthy(body.telegramUserId)
                   THEN VReq(body, "done", 400, "Missing tx_hash or telegramUserId")
                   ELSE VReq(body, "check", 0, ""))
    /\ UNCHANGED <<processed_transactions, vault_balance, creditLog>>

\* await db.hasProcessedTransaction(tx_hash): 409 when the hash is recorded.
VerifyCheck(i) ==
    /\ vreq[i].pc = "check"
    /\ vreq' = [vreq EXCEPT ![i] =
                  IF hasProcessedTransaction(processed_transactions, @.tx_hash)
                  THEN VAnswer(@, 409, "already_processed")
                  ELSE [@ EXCEPT !.pc = "rpc"]]
    /\ UNCHANGED <<processed_transactions, vault_balance, creditLog>>

\* The transaction's to, or a Transfer log of its receipt, names the vault.
PaysVault(tx, receipt, vault) ==
    \/ tx.to # Undef /\ tx.to = vault
    \/ /\ receipt.kind = "receipt"
       /\ \E k \in DOMAIN receipt.logs :
            /\ receipt.logs[k].ntopics >= 3
            /\ receipt.logs[k].topic0 = TRANSFER_EVENT_TOPIC
            /\ receipt.logs[k].to = vault

\* await provider.getTransaction, await provider.getTransactionReceipt, and
\* the match against the vault.
VerifyRpc(i) ==
    /\ vreq[i].pc = "rpc"
    /\ \E txUp \in BOOLEAN, receiptUp \in BOOLEAN :
         LET tx == RpcTx(vreq[i].tx_hash, txUp)
             receipt == RpcReceipt(vreq[i].tx_hash, receiptUp)
         IN vreq' = [vreq EXCEPT ![i] =
                       IF tx.kind = "throw" THEN VAnswer(@, 503, "network_unavailable")
                       ELSE IF tx.kind = "null" THEN VAnswer(@, 404, "tx_not_found")
                       ELSE IF receipt.kind = "throw" THEN VAnswer(@, 500, "server_error")
                       ELSE IF ~PaysVault(tx, receipt, VaultAddr)
                       THEN VAnswer(@, 400, "to_address_mismatch")
                       ELSE [@ EXCEPT !.pc = "record"]]
    /\ UNCHANGED <<processed_transactions, vault_balance, creditLog>>

\* await db.recordProcessedTransaction(...): 500 db_error when it rejects.
VerifyRecord(i) ==
    /\ vreq[i].pc = "record"
    /\ LET ins == recordProcessedTransaction(processed_transactions, vreq[i].tx_hash,
                                             vreq[i].telegramUserId, vreq[i].amount)
       IN /\ processed_transactions' = ins.rows
          /\ vreq' = [vreq EXCEPT ![i] =
                        IF ins.ok THEN [@ EXCEPT !.pc = "credit"]
                        ELSE VAnswer(@, 500, "db_error")]
    /\ UNCHANGED <<vault_balance, creditLog>>

\* await db.creditUserVault(telegramUserId, Number(amount) || 0), the
\* best-effort notification, and the 200.
VerifyCredit(i) ==
    /\ vreq[i].pc = "credit"
    /\ vault_balance' = creditUserVault(vault_balance, vreq[i].telegramUserId, vreq[i].amount)
    /\ creditLog' = Append(creditLog, [tx_hash |-> vreq[i].tx_hash,
                                       user |-> vreq[i].telegramUserId,
                                       amount |-> vreq[i].amount])
    /\ vreq' = [vreq EXCEPT ![i] = VAnswer(@, 200, "")]
    /\ UNCHANGED processed_transactions

(***************************************************************************)
(* The remote store (the Supabase adapter): processed transactions are     *)
(* daily_logs rows inserted without any uniqueness check, and              *)
(* creditUserVault selects the balance, then updates it.                   *)
(***************************************************************************)
remoteRecordProcessedTransaction(rows, txHash, telegramUserId, amount) ==
    Append(rows, [log_type |-> "processed_transaction", tx_hash |-> txHash,
                  telegram_id |-> telegramUserId, amount |-> amount])

\* const current = (user && user.vault_balance) ? Number(user.vault_balance) : 0
remoteSelectBalance(balance) == balance

\* update({ vault_balance: current + Number(amount) })
remoteUpdateBalance(current, amount) == current + amount

(***************************************************************************)
(* The gateway: GET /x402/stake (index.js 50-122), with VAULT_ADDRESS set. *)
(* A request stops at each await:                                          *)
(*   verify -> record -> creditRead -> creditWrite -> done.                *)
(***************************************************************************)
StakeHeaders ==
    {h \in PaymentHeaders :
        \/ h.kind # "object"
        \/ Cardinality({f \in {h.txHash, h.tx_hash, h.hash} : Truthy(f)}) <= 1}

\* const fee = parseFloat(req.query.fee) || 0.10
StakeFee(fee) == IF fee = 0 THEN 100 ELSE fee

\* const amount = parseFloat(req.query.amount) || 0
StakeAmount(amount) == IF amount = 0 THEN 0 ELSE amount

\* The amount and fee parameters of a request, in thousandths of a cUSD; 0
\* stands for a parameter that is absent or does not parse.  The bot's pay
\* link carries the stake plus the fee as amount, and fee=0.10 (bot.js
\* 604-607); a caller may send any number, a negative one included.
StakeAmounts == {0, 100, 5100}
StakeFees == {0, 110, 0 - 1}

\* The hash the route takes from the header; "throw" when the try block
\* catches (JSON.parse fails, or the parsed value is null).
StakeTxHash(h) ==
    IF h.kind = "raw" THEN h.raw
    ELSE IF h.kind \in {"notjson", "null"} THEN "throw"
    ELSE IF h.kind = "number" THEN Undef
    ELSE FirstTruthy(h.txHash, h.tx_hash, h.hash)

SReq(txHash, user, fee, pc, status, error) ==
    [txHash |-> txHash, user |-> user, fee |-> fee, pc |-> pc, status |-> status,
     error |-> error, amount |-> 0, current |-> 0, asked |-> 0]

SAnswer(r, status, error) == [r EXCEPT !.pc = "done", !.status = status, !.error = error]

\* The request arrives: 402 with the requirements when it has no X-PAYMENT
\* header, 400 when the header cannot be read.
StakeReceive ==
    /\ Len(sreq) < MaxStakeRequests
    /\ \E header \in StakeHeaders, user \in {Undef, KnownUser},
          fee \in StakeFees, amount \in StakeAmounts :
         LET txHash == StakeTxHash(header)
             r == IF header.kind = "absent"
                  THEN SReq(Undef, user, StakeFee(fee), "done", 402, "payment_required")
                  ELSE IF txHash = "throw"
                  THEN SReq(Undef, user, StakeFee(fee), "done", 400, "invalid_payment_header")
                  ELSE SReq(txHash, user, StakeFee(fee), "verify", 0, "")
         IN sreq' = Append(sreq, [r EXCEPT !.asked = StakeAmount(amount)])
    /\ UNCHANGED <<daily_logs, remote_balance, stakeStore, stakeCredits>>

\* await verifyPayment(txHash, vault, fee, rpc); without a user id, or
\* without a configured store, a valid payment is answered 200 at once.
StakeVerifyPayment(i) ==
    /\ sreq[i].pc = "verify"
    /\ \E up \in BOOLEAN :
         LET h == sreq[i].txHash
             result == verifyPayment(h, VaultAddr, sreq[i].fee,
                                     RpcTx(h, up /\ h # Undef), RpcReceipt(h, up))
         IN sreq' = [sreq EXCEPT ![i] =
                       IF ~result.valid THEN SAnswer(@, 402, result.error)
                       ELSE IF Truthy(@.user) /\ stakeStore = "remote"
                       THEN [@ EXCEPT !.pc = "record", !.amount = result.amount]
                       ELSE [SAnswer(@, 200, "") EXCEPT !.amount = result.amount]]
    /\ UNCHANGED <<daily_logs, remote_balance, stakeStore, stakeCredits>>

\* await db.recordProcessedTransaction(txHash, user, result.amount, ...)
StakeRecord(i) ==
    /\ sreq[i].pc = "record"
    /\ daily_logs' = remoteRecordProcessedTransaction(daily_logs, sreq[i].txHash,
                                                      sreq[i].user, sreq[i].amount)
    /\ sreq' = [sreq EXCEPT ![i].pc = "creditRead"]
    /\ UNCHANGED <<remote_balance, stakeStore, stakeCredits>>

\* creditUserVault, first await: select vault_balance.
StakeCreditRead(i) ==
    /\ sreq[i].pc = "creditRead"
    /\ sreq' = [sreq EXCEPT ![i].pc = "creditWrite",
                            ![i].current = remoteSelectBalance(remote_balance)]
    /\ UNCHANGED <<daily_logs, remote_balance, stakeStore, stakeCredits>>

\* creditUserVault, second await: update vault_balance; then the 200.
StakeCreditWrite(i) ==
    /\ sreq[i].pc = "creditWrite"
    /\ remote_balance' = remoteUpdateBalance(sreq[i].current, sreq[i].amount)
    /\ stakeCredits' = Append(stakeCredits, [tx_hash |-> sreq[i].txHash,
                                             amount |-> sreq[i].amount])
    /\ sreq' = [sreq EXCEPT ![i] = SAnswer(@, 200, "")]
    /\ UNCHANGED <<daily_logs, stakeStore>>

(***************************************************************************)
(* The Telegram bot (bot.js), for one user.  The bot runs over the remote  *)
(* store: it calls updateUserTimezone, and the scheduler listUsers, which  *)
(* only the remote store has.  A message text is what the handlers make of *)
(* it: its lower-case form, its pieces between commas and newlines, and    *)
(* the number parseInt/parseFloat read from it (nan when they read none).  *)
(***************************************************************************)
Text(raw, lower, pieces, nan, num) ==
    [raw |-> raw, lower |-> lower, pieces |-> pieces, nan |-> nan, num |-> num]

TextThree == Text("3", "3", <<"3">>, FALSE, 3)
TextZero == Text("0", "0", <<"0">>, FALSE, 0)
TextYes == Text("YES", "yes", <<"YES">>, TRUE, 0)
TextNo == Text("No", "no", <<"No">>, TRUE, 0)
TextList == Text("run, , read ,gym,nap", "run, , read ,gym,nap",
                 <<"run", " ", " read ", "gym", "nap">>, TRUE, 0)
TextBlank == Text(" , ", " , ", <<" ", " ">>, TRUE, 0)
TextCity == Text("Mumbai, India", "mumbai, india", <<"Mumbai", " India">>, TRUE, 0)
TextStart == Text("/start", "/start", <<"/start">>, TRUE, 0)
TextSetTimezone(tz) == Text("/settimezone", "/settimezone", <<"/settimezone">>, TRUE, 0)

Texts == {TextThree, TextYes, TextNo, TextList, TextBlank, TextCity}

\* String.prototype.trim on a piece.
Trim(piece) ==
    IF piece = " " THEN ""
    ELSE IF piece = " read " THEN "read"
    ELSE IF piece = " India" THEN "India"
    ELSE piece

\* String.prototype.toLowerCase on a piece.
ToLowerCase(piece) ==
    IF piece = "Mumbai" THEN "mumbai"
    ELSE IF piece = "India" THEN "india"
    ELSE IF piece = "YES" THEN "yes"
    ELSE IF piece = "No" THEN "no"
    ELSE piece

\* The parse without its slice(0, 3).
ParseMissionsNoSlice(pieces) ==
    LET trimmed == [i \in DOMAIN pieces |-> Trim(pieces[i])]
    IN SelectSeq(trimmed, LAMBDA m : m # "")

\* text.split(/[,\n]/).map(m => m.trim()).filter(m => m.length > 0).slice(0, 3)
ParseMissions(pieces) ==
    LET trimmed == [i \in DOMAIN pieces |-> Trim(pieces[i])]
        kept == SelectSeq(trimmed, LAMBDA m : m # "")
    IN SubSeq(kept, 1, IF Len(kept) < 3 THEN Len(kept) ELSE 3)

\* The city table of mapCityToTimezone, for the cities the texts name.
CityMap(c) ==
    IF c \in {"mumbai", "delhi", "bangalore"} THEN "Asia/Kolkata"
    ELSE IF c = "nairobi" THEN "Africa/Nairobi"
    ELSE Undef

\* brain.mapCityToTimezone(city): the table's entry for the trimmed,
\* lower-cased city, else for the part before the first comma, else null.
mapCityToTimezone(text) ==
    IF CityMap(text.lower) # Undef THEN CityMap(text.lower)
    ELSE IF Len(text.pieces) > 1
            /\ CityMap(ToLowerCase(Trim(text.pieces[1]))) # Undef
         THEN CityMap(ToLowerCase(Trim(text.pieces[1])))
         ELSE Undef

\* this.userMissionState[userId]: absent, or {energy, missions, stake}.
\* briefing numbers the object; reply keeps the pieces of the goals reply
\* its missions were parsed from.
NoMissionState ==
    [present |-> FALSE, energy |-> 0, missions |-> <<>>, stake |-> 0, briefing |-> 0,
     reply |-> <<>>]

\* The users table: its columns are the deployment's schema; a row has a
\* value for every column of the schema.
AllColumns == {"verified_human", "verified", "vault_balance"}
Schemas ==
    {{"vault_balance"}, {"verified", "vault_balance"}, {"verified_human", "vault_balance"},
     AllColumns}

Row(exists, columns, verifiedHuman, verified, balance, timezone) ==
    [exists |-> exists, columns |-> columns, verified_human |-> verifiedHuman,
     verified |-> verified, vault_balance |-> balance, timezone |-> timezone]

UserRows ==
    {Row(FALSE, AllColumns, FALSE, FALSE, 0, Undef),
     Row(TRUE, {"vault_balance"}, FALSE, FALSE, 0, "Asia/Kolkata"),
     Row(TRUE, {"verified", "vault_balance"}, FALSE, FALSE, 100, "Asia/Kolkata"),
     Row(TRUE, {"verified_human", "vault_balance"}, TRUE, FALSE, 0, "Asia/Kolkata"),
     Row(TRUE, AllColumns, TRUE, FALSE, 0, "Asia/Kolkata"),
     Row(TRUE, AllColumns, FALSE, TRUE, 0, "Asia/Kolkata")}

\* getOrCreateUser: the row, inserted with the schema's defaults if absent.
getOrCreateUser(row) ==
    IF row.exists THEN row ELSE Row(TRUE, row.columns, FALSE, FALSE, 0, Undef)

\* isVerified (verifier/selfProtocol.js); rev "verified_human" is the
\* revision that consults the verified_human column first.
isVerified(user, rev) ==
    IF ~user.exists THEN FALSE
    ELSE IF rev = "verified_human" /\ "verified_human" \in user.columns
    THEN user.verified_human
    ELSE IF "verified" \in user.columns THEN user.verified
    ELSE "vault_balance" \in user.columns /\ user.vault_balance > 0

\* db.getUserById as isVerified calls it: the row, or an error raised.
getUserById(row, fails) == [threw |-> fails, user |-> row]

\* isVerified with its try/catch: a lookup that raises is "not verified".
isVerifiedCall(lookup, rev) ==
    IF lookup.threw THEN FALSE ELSE isVerified(lookup.user, rev)

\* threw records that the invocation's user lookup raised an error.
Handler(kind, pc, state) == [kind |-> kind, pc |-> pc, state |-> state, threw |-> FALSE]

\* handleAllMessages: what one message does to the flow state, the Mission
\* state and the user's row, and whether it starts a confirmation.
Routed(flow, mission, row, made, confirm) ==
    [flow |-> flow, mission |-> mission, row |-> row, made |-> made, confirm |-> confirm]

Route(flow, mission, row, text, made) ==
    LET same == Routed(flow, mission, row, made, FALSE)
    IN IF flow = "onboarding_city"
       THEN LET tz == mapCityToTimezone(text)
            IN IF tz = Undef THEN same
               ELSE Routed("mission_briefing_energy", mission,
                           IF row.exists THEN [row EXCEPT !.timezone = tz] ELSE row,
                           made, FALSE)
       ELSE IF flow = "mission_briefing_energy" /\ ~text.nan /\ text.num >= 1 /\ text.num <= 5
       THEN Routed("mission_briefing_goals",
                   [present |-> TRUE, energy |-> text.num, missions |-> <<>>, stake |-> 0,
                    briefing |-> made + 1, reply |-> <<>>],
                   row, made + 1, FALSE)
       ELSE IF flow = "mission_briefing_goals"
       THEN IF ~mission.present \/ ParseMissions(text.pieces) = <<>> THEN same
            ELSE Routed("mission_briefing_stake",
                        [mission EXCEPT !.missions = ParseMissions(text.pieces),
                                        !.reply = text.pieces],
                        row, made, FALSE)
       ELSE IF flow = "mission_briefing_stake" /\ ~text.nan /\ text.num > 0
       THEN IF ~mission.present THEN same
            ELSE Routed("mission_briefing_confirm", [mission EXCEPT !.stake = text.num],
                        row, made, FALSE)
       ELSE IF flow = "mission_briefing_confirm" /\ text.lower = "yes"
       THEN Routed(flow, mission, row, made, TRUE)
       ELSE IF flow = "mission_briefing_confirm" /\ text.lower = "no"
       THEN Routed(Undef, mission, row, made, FALSE)
       ELSE IF flow = "sunset_reflection_wins" /\ ~text.nan /\ text.num >= 0
       THEN Routed("sunset_reflection_mood", mission, row, made, FALSE)
       ELSE IF flow = "sunset_reflection_mood" /\ ~text.nan /\ text.num >= 1 /\ text.num <= 5
       THEN Routed(Undef, mission, row, made, FALSE)
       ELSE same

\* A message that is no command: handleAllMessages routes it.  A YES in
\* mission_briefing_confirm starts handleMissionBriefingConfirm, which reads
\* the Mission state and awaits isVerified.
BotMessage(text) ==
    LET r == Route(userFlowState, userMissionState, userRow, text, briefings)
    IN /\ r.made <= MaxBriefings
       /\ r.confirm => Len(handlers) < MaxHandlers
       /\ userFlowState' = r.flow
       /\ userMissionState' = r.mission
       /\ userRow' = r.row
       /\ briefings' = r.made
       /\ handlers' = IF r.confirm
                      THEN Append(handlers, Handler("confirm", "isVerified", userMissionState))
                      ELSE handlers
       /\ UNCHANGED <<botLogs, selfProtocol, attested>>

\* /start: handleAllMessages routes the text, then handleStart gets or
\* creates the user and asks for the city or for the energy level.
BotStart ==
    LET r == Route(userFlowState, userMissionState, userRow, TextStart, briefings)
        user == getOrCreateUser(r.row)
    IN /\ userRow' = user
       /\ userFlowState' = IF ~Truthy(user.timezone) THEN "onboarding_city"
                           ELSE "mission_briefing_energy"
       /\ userMissionState' = r.mission
       /\ briefings' = r.made
       /\ UNCHANGED <<botLogs, handlers, selfProtocol, attested>>

\* /settimezone <tz>: handleAllMessages routes the text, then
\* handleSetTimezone stores the timezone and deletes the flow state.
BotSetTimezone(tz) ==
    LET r == Route(userFlowState, userMissionState, userRow, TextSetTimezone(tz), briefings)
    IN /\ userRow' = IF r.row.exists THEN [r.row EXCEPT !.timezone = tz] ELSE r.row
       /\ userFlowState' = Undef
       /\ userMissionState' = r.mission
       /\ briefings' = r.made
       /\ UNCHANGED <<botLogs, handlers, selfProtocol, attested>>

\* A payment is credited to the user's vault (creditUserVault).
VaultCredited ==
    /\ userRow.exists /\ userRow.vault_balance = 0
    /\ userRow' = [userRow EXCEPT !.vault_balance = 100]
    /\ UNCHANGED <<userFlowState, userMissionState, botLogs, handlers, briefings, selfProtocol, attested>>

\* The SelfClaw webhook of the main server, POST /api/verify, with the
\* remote store configured.  BotUser is the Telegram id of the bot's user.
BotUser == KnownUser

WebhookBodies ==
    {[telegramId |-> BotUser, verified |-> TRUE],
     [telegramId |-> UnknownUser, verified |-> TRUE],
     [telegramId |-> BotUser, verified |-> FALSE],
     [telegramId |-> "", verified |-> TRUE]}

\* The update of verified_human touches the row of that telegram_id; it is
\* an error when the users table has no such column.
WebhookStatus(body, row) ==
    IF ~Truthy(body.telegramId) \/ body.verified # TRUE THEN 400
    ELSE IF "verified_human" \notin row.columns THEN 500
    ELSE 200

VerifyWebhook(body) ==
    LET status == WebhookStatus(body, userRow)
        mine == status = 200 /\ body.telegramId = BotUser
    IN /\ userRow' = IF mine /\ userRow.exists
                     THEN [userRow EXCEPT !.verified_human = TRUE]
                     ELSE userRow
       /\ attested' = (attested \/ mine)
       /\ UNCHANGED <<userFlowState, userMissionState, botLogs, handlers, briefings,
                      selfProtocol>>

\* The unverified branch, were it to drop the conversation like the
\* completed branch does.
ConfirmIsVerifiedDropsState(k) ==
    /\ k \in DOMAIN handlers
    /\ handlers[k].kind = "confirm" /\ handlers[k].pc = "isVerified"
    /\ IF ~isVerified(userRow, selfProtocol)
       THEN /\ handlers' = [handlers EXCEPT ![k].pc = "cta"]
            /\ userFlowState' = Undef
            /\ userMissionState' = NoMissionState
       ELSE /\ handlers' = [handlers EXCEPT ![k].pc =
                               IF handlers[k].state.present THEN "saveMissions" ELSE "error"]
            /\ UNCHANGED <<userFlowState, userMissionState>>
    /\ UNCHANGED <<userRow, botLogs, briefings, selfProtocol, attested>>

\* handleMissionBriefingConfirm resumes from isVerified: an unverified user
\* gets the call-to-action and the handler returns; for a verified user it
\* goes on to saveMissions (reading state.missions of an absent state throws
\* into the handler's catch).
ConfirmIsVerified(k) ==
    /\ k \in DOMAIN handlers
    /\ handlers[k].kind = "confirm" /\ handlers[k].pc = "isVerified"
    /\ \E fails \in BOOLEAN :
         handlers' = [handlers EXCEPT
                        ![k].threw = fails,
                        ![k].pc =
                            IF ~isVerifiedCall(getUserById(userRow, fails), selfProtocol)
                            THEN "cta"
                            ELSE IF handlers[k].state.present THEN "saveMissions"
                            ELSE "error"]
    /\ UNCHANGED <<userFlowState, userMissionState, userRow, botLogs, briefings,
                   selfProtocol, attested>>

\* A daily_logs row the bot writes, identified by the handler that wrote it
\* and its log_type; briefing records which Mission state it came from.
LogRow(log_type, count, h, k) ==
    [log_type |-> log_type, count |-> count, briefing |-> h.state.briefing, by |-> k,
     missions |-> IF log_type = "missions" THEN h.state.missions ELSE <<>>]

\* db.saveMissions: one daily_logs row holding the missions array.
ConfirmSaveMissions(k) ==
    /\ k \in DOMAIN handlers
    /\ handlers[k].kind = "confirm" /\ handlers[k].pc = "saveMissions"
    /\ botLogs' = botLogs \cup {LogRow("missions", Len(handlers[k].state.missions), handlers[k], k)}
    /\ handlers' = [handlers EXCEPT ![k].pc = "saveDailySummary"]
    /\ UNCHANGED <<userFlowState, userMissionState, userRow, briefings, selfProtocol, attested>>

\* db.saveDailySummary: one daily_logs row with total_missions.
ConfirmSaveDailySummary(k) ==
    /\ k \in DOMAIN handlers
    /\ handlers[k].kind = "confirm" /\ handlers[k].pc = "saveDailySummary"
    /\ botLogs' = botLogs \cup {LogRow("daily_summary", Len(handlers[k].state.missions), handlers[k], k)}
    /\ handlers' = [handlers EXCEPT ![k].pc = "recordVerificationAttempt"]
    /\ UNCHANGED <<userFlowState, userMissionState, userRow, briefings, selfProtocol, attested>>

\* The pay link is sent, the attempt is logged, and the flow state and the
\* Mission state are deleted.
ConfirmFinish(k) ==
    /\ k \in DOMAIN handlers
    /\ handlers[k].kind = "confirm" /\ handlers[k].pc = "recordVerificationAttempt"
    /\ botLogs' = botLogs \cup {LogRow("verification_attempt", 0, handlers[k], k)}
    /\ handlers' = [handlers EXCEPT ![k].pc = "done"]
    /\ userFlowState' = Undef
    /\ userMissionState' = NoMissionState
    /\ UNCHANGED <<userRow, briefings, selfProtocol, attested>>

\* handleSunsetReflection resumes from getTodayMissions and asks for the
\* wins, whatever the flow state has become.
SunsetFinish(k) ==
    /\ k \in DOMAIN handlers
    /\ handlers[k].kind = "sunset" /\ handlers[k].pc = "getTodayMissions"
    /\ handlers' = [handlers EXCEPT ![k].pc = "done"]
    /\ userFlowState' = "sunset_reflection_wins"
    /\ UNCHANGED <<userMissionState, userRow, botLogs, briefings, selfProtocol, attested>>

(***************************************************************************)
(* The scheduler (services/scheduler.js), for the one user of the users    *)
(* table.  The clock counts minutes from Sunday 00:00 UTC; the server's    *)
(* zone is UTC, so toDateString changes every 1440 minutes.                *)
(***************************************************************************)
MinutesPerDay == 24 * 60
MinutesPerWeek == 7 * MinutesPerDay

\* Offsets from UTC, in minutes, of the zones Intl knows; any other zone
\* makes Intl.DateTimeFormat throw.
KnownZones == {"UTC", "Asia/Kolkata", "Asia/Dhaka"}
InvalidZone == "Mars/Phobos"

UtcOffset(tz) ==
    IF tz = "Asia/Kolkata" THEN 330 ELSE IF tz = "Asia/Dhaka" THEN 360 ELSE 0

NoParts == [valid |-> FALSE, hour |-> 0, minute |-> 0, day |-> 0]

\* getLocalTimeParts(timezone) at clock reading t: hour, minute and weekday
\* in the zone, or null.
getLocalTimeParts(tz, t) ==
    IF tz \notin KnownZones THEN NoParts
    ELSE LET local == (t + UtcOffset(tz)) % MinutesPerWeek
         IN [valid |-> TRUE,
             hour |-> (local % MinutesPerDay) \div 60,
             minute |-> local % 60,
             day |-> local \div MinutesPerDay]

\* new Date().toDateString() at clock reading t.
toDateString(t) == t \div MinutesPerDay

\* lastTriggered[key] === date
Triggered(lt, key, date) == [key |-> key, date |-> date] \in lt

\* lastTriggered[key] = date
SetTriggered(lt, key, date) ==
    {e \in lt : e.key # key} \cup {[key |-> key, date |-> date]}

BlockingStates ==
    {"onboarding_city", "mission_briefing_energy", "mission_briefing_goals",
     "mission_briefing_stake", "mission_briefing_confirm"}

\* The window starts: Friday 01:45, 10:45 and 13:45 UTC.
WindowStarts == {7305, 7845, 8025}

\* One pass of the loop body for user u at clock reading t: the marker map
\* after it, and which of the triggers it fired or deferred.
Pass(lt, morning, sunset, deferred, weekly) ==
    [lt |-> lt, morning |-> morning, sunset |-> sunset, deferred |-> deferred,
     weekly |-> weekly]

LoopBody(u, lt, flow, t) ==
    LET tz == IF Truthy(u.timezone) THEN u.timezone ELSE "UTC"
        parts == getLocalTimeParts(tz, t)
        date == toDateString(t)
        atMorning == parts.hour = 8 /\ parts.minute = 0
        atSunset == parts.hour = 20 /\ parts.minute = 0
        atWeekly == parts.day = 5 /\ parts.hour = 17 /\ parts.minute = 0
        ltM == IF atMorning THEN SetTriggered(lt, <<tz, "morning">>, date) ELSE lt
        ltS == IF atSunset THEN SetTriggered(ltM, <<tz, "sunset">>, date) ELSE ltM
        ltW == IF atWeekly THEN SetTriggered(ltS, <<tz, "weekly">>, date) ELSE ltS
    IN IF ~parts.valid THEN Pass(lt, FALSE, FALSE, FALSE, FALSE)
       ELSE IF atMorning /\ Triggered(lt, <<tz, "morning">>, date)
       THEN Pass(lt, FALSE, FALSE, FALSE, FALSE)
       ELSE IF atSunset /\ Triggered(ltM, <<tz, "sunset">>, date)
       THEN Pass(ltM, atMorning, FALSE, FALSE, FALSE)
       ELSE IF atSunset /\ flow \in BlockingStates
       THEN Pass(ltM, atMorning, FALSE, TRUE, FALSE)
       ELSE IF atWeekly /\ Triggered(ltS, <<tz, "weekly">>, date)
       THEN Pass(ltS, atMorning, atSunset, FALSE, FALSE)
       ELSE Pass(ltW, atMorning, atSunset, FALSE, atWeekly)

Count(b) == IF b THEN 1 ELSE 0

NoNudges == [morning |-> 0, sunset |-> 0, weekly |-> 0, crossed |-> 0]

\* The cron callback, were it to deliver a deferred sunset nudge at the
\* first tick that finds the user outside the blocking states.
TickConsumesPending ==
    LET users == IF userRow.exists THEN {userRow} ELSE {}
        tz == IF Truthy(userRow.timezone) THEN userRow.timezone ELSE "UTC"
        parts == getLocalTimeParts(tz, now)
        r == IF users = {} THEN Pass(lastTriggered, FALSE, FALSE, FALSE, FALSE)
             ELSE LoopBody(userRow, lastTriggered, userFlowState, now)
        due == pendingSunset /\ userFlowState \notin BlockingStates
    IN /\ ticks < MaxTicks
       /\ (r.sunset \/ due) => Len(handlers) < MaxHandlers
       /\ now' = now + 1
       /\ ticks' = ticks + 1
       /\ lastTriggered' = r.lt
       /\ pendingSunset' = ((pendingSunset /\ ~due) \/ r.deferred)
       /\ handlers' = IF r.sunset \/ due
                      THEN Append(handlers, Handler("sunset", "getTodayMissions", NoMissionState))
                      ELSE handlers
       /\ nudges' = [morning |-> nudges.morning + Count(r.morning),
                     sunset |-> nudges.sunset + Count(r.sunset \/ due),
                     weekly |-> nudges.weekly + Count(r.weekly),
                     crossed |-> nudges.crossed
                                 + Count(users # {} /\ parts.valid
                                         /\ parts.hour = 8 /\ parts.minute = 0)]
       /\ UNCHANGED <<userFlowState, userMissionState, userRow, botLogs, briefings,
                      selfProtocol, attested>>

\* The cron callback of one minute: listUsers, then the loop body for the
\* user; a sunset trigger starts handleSunsetReflection, which awaits
\* getTodayMissions.  nudges counts the handler calls, and the ticks at
\* which the user's local time was 08:00.
Tick ==
    LET users == IF userRow.exists THEN {userRow} ELSE {}
        tz == IF Truthy(userRow.timezone) THEN userRow.timezone ELSE "UTC"
        parts == getLocalTimeParts(tz, now)
        r == IF users = {} THEN Pass(lastTriggered, FALSE, FALSE, FALSE, FALSE)
             ELSE LoopBody(userRow, lastTriggered, userFlowState, now)
    IN /\ ticks < MaxTicks
       /\ r.sunset => Len(handlers) < MaxHandlers
       /\ now' = now + 1
       /\ ticks' = ticks + 1
       /\ lastTriggered' = r.lt
       /\ pendingSunset' = (pendingSunset \/ r.deferred)
       /\ handlers' = IF r.sunset
                      THEN Append(handlers, Handler("sunset", "getTodayMissions", NoMissionState))
                      ELSE handlers
       /\ nudges' = [morning |-> nudges.morning + Count(r.morning),
                     sunset |-> nudges.sunset + Count(r.sunset),
                     weekly |-> nudges.weekly + Count(r.weekly),
                     crossed |-> nudges.crossed
                                 + Count(users # {} /\ parts.valid
                                         /\ parts.hour = 8 /\ parts.minute = 0)]
       /\ UNCHANGED <<userFlowState, userMissionState, userRow, botLogs, briefings,
                      selfProtocol, attested>>

(***************************************************************************)
(* The local store's daily tables (src/src/database/init.js).  A nullable  *)
(* integer column is a set: {} for NULL, {v} for the value v.  A table is  *)
(* the sequence of its rows in rowid order; a SELECT that db.get runs      *)
(* without ORDER BY yields the first matching row of that scan.  A method  *)
(* call stops between the statements it issues from callbacks, and calls   *)
(* interleave there.                                                       *)
(***************************************************************************)
MaxLocalCalls == 3

\* new Date().toISOString().split('T')[0]
Today == "2026-01-01"

\* createTables: daily_summary declares no UNIQUE constraint on
\* (user_id, date); its only key is the autoincremented id.
DailySummaryUnique == FALSE

\* A column as JavaScript arithmetic sees it: null counts as 0.
Num(column) == IF column = {} THEN 0 ELSE CHOOSE v \in column : TRUE

SummaryRow(user, energy, total, notes) ==
    [user_id |-> user, date |-> Today, morning_energy |-> energy,
     total_missions |-> total, missions_completed |-> 0, evening_mood |-> {},
     mood_delta |-> {}, notes |-> notes]

\* INSERT OR REPLACE: rows that conflict with the new one on a declared key
\* are deleted, then the new row is inserted with a fresh id.
insertOrReplace(table, row, unique) ==
    Append(SelectSeq(table, LAMBDA r : ~(unique /\ r.user_id = row.user_id
                                                /\ r.date = row.date)),
           row)

\* The rowids of a user's summary rows for today.
TodayRows(table, user) ==
    {i \in DOMAIN table : table[i].user_id = user /\ table[i].date = Today}

FirstRow(ids) == CHOOSE i \in ids : \A j \in ids : i <= j

\* getTodaySummary: the row db.get yields, or no row (resolve(null)).
NoSummary == [found |-> FALSE, row |-> SummaryRow(Undef, {}, 0, <<>>)]
getTodaySummary(table, user) ==
    IF TodayRows(table, user) = {}
    THEN NoSummary
    ELSE [found |-> TRUE, row |-> table[FirstRow(TodayRows(table, user))]]

NoResult == [morning_energy |-> {}, evening_mood |-> {}, mood_delta |-> {}]

Call(op, pc, user) ==
    [op |-> op, pc |-> pc, user |-> user, mood |-> 0, wins |-> 0,
     energy |-> {}, notes |-> <<>>, attempt |-> 0, missions |-> <<>>,
     index |-> 0, result |-> NoResult]

LocalUsers == {KnownUser, UnknownUser}
MorningEnergies == {2, 4}
MoodInputs ==
    {[isNumber |-> TRUE, value |-> v] : v \in {0, 2, 5, 6}}
        \cup {[isNumber |-> FALSE, value |-> 3]}
MissionLists == {<<"run">>, <<"run", "read", "gym">>}

\* saveDailySummary: one INSERT OR REPLACE ... SELECT id ... FROM users,
\* which inserts nothing for a user the users table lacks.
SaveDailySummary(user, energy, count) ==
    /\ Len(lcalls) < MaxLocalCalls
    /\ daily_summary' =
         IF user \in local_users
         THEN insertOrReplace(daily_summary,
                              SummaryRow(user, {energy}, count, <<>>),
                              DailySummaryUnique)
         ELSE daily_summary
    /\ lcalls' = Append(lcalls, [Call("saveDailySummary", "resolved", user)
                                    EXCEPT !.energy = {energy}])
    /\ UNCHANGED <<local_users, daily_missions>>

\* recordVerificationAttempt, first await: getOrCreateUser.
RecordVerificationAttempt(user) ==
    /\ Len(lcalls) < MaxLocalCalls
    /\ local_users' = local_users \cup {user}
    /\ lcalls' = Append(lcalls,
                        [Call("recordVerificationAttempt", "select", user)
                            EXCEPT !.attempt = Len(lcalls) + 1])
    /\ UNCHANGED <<daily_summary, daily_missions>>

\* recordVerificationAttempt: SELECT notes; an absent row or NULL notes
\* parse as the empty array.
RecordVerificationAttemptSelect(k) ==
    /\ k \in DOMAIN lcalls
    /\ lcalls[k].op = "recordVerificationAttempt"
    /\ lcalls[k].pc = "select"
    /\ lcalls' = [lcalls EXCEPT ![k].pc = "insert",
                    ![k].notes = getTodaySummary(daily_summary, lcalls[k].user).row.notes]
    /\ UNCHANGED <<local_users, daily_summary, daily_missions>>

\* recordVerificationAttempt: INSERT OR REPLACE of (user_id, date, notes).
RecordVerificationAttemptInsert(k) ==
    /\ k \in DOMAIN lcalls
    /\ lcalls[k].op = "recordVerificationAttempt"
    /\ lcalls[k].pc = "insert"
    /\ daily_summary' =
         insertOrReplace(daily_summary,
                         SummaryRow(lcalls[k].user, {}, 0,
                                    Append(lcalls[k].notes, lcalls[k].attempt)),
                         DailySummaryUnique)
    /\ lcalls' = [lcalls EXCEPT ![k].pc = "resolved"]
    /\ UNCHANGED <<local_users, daily_missions>>

\* updateSunsetMood: the validation, made before any statement is issued.
ValidMood(input) == input.isNumber /\ ~(input.value < 1) /\ ~(input.value > 5)

UpdateSunsetMood(user, input, wins) ==
    /\ Len(lcalls) < MaxLocalCalls
    /\ lcalls' = Append(lcalls,
                        [Call("updateSunsetMood",
                              IF ValidMood(input) THEN "select" ELSE "rejected",
                              user)
                            EXCEPT !.mood = input.value, !.wins = wins])
    /\ UNCHANGED <<local_users, daily_summary, daily_missions>>

\* updateSunsetMood: SELECT morning_energy; 3 when no row was found.
UpdateSunsetMoodSelect(k) ==
    /\ k \in DOMAIN lcalls
    /\ lcalls[k].op = "updateSunsetMood"
    /\ lcalls[k].pc = "select"
    /\ LET summary == getTodaySummary(daily_summary, lcalls[k].user)
       IN lcalls' = [lcalls EXCEPT ![k].pc = "update",
                       ![k].energy = IF summary.found
                                     THEN summary.row.morning_energy
                                     ELSE {3}]
    /\ UNCHANGED <<local_users, daily_summary, daily_missions>>

\* updateSunsetMood: UPDATE ... WHERE user_id = ... AND date = ..., which
\* touches every matching row, then resolve({...}).
UpdateSunsetMoodUpdate(k) ==
    /\ k \in DOMAIN lcalls
    /\ lcalls[k].op = "updateSunsetMood"
    /\ lcalls[k].pc = "update"
    /\ LET c == lcalls[k]
           moodDelta == c.mood - Num(c.energy)
       IN /\ daily_summary' =
               [i \in DOMAIN daily_summary |->
                   IF i \in TodayRows(daily_summary, c.user)
                   THEN [daily_summary[i] EXCEPT !.evening_mood = {c.mood},
                            !.missions_completed = c.wins,
                            !.mood_delta = {moodDelta}]
                   ELSE daily_summary[i]]
          /\ lcalls' = [lcalls EXCEPT ![k].pc = "resolved",
                          ![k].result = [morning_energy |-> c.energy,
                                         evening_mood |-> {c.mood},
                                         mood_delta |-> {moodDelta}]]
    /\ UNCHANGED <<local_users, daily_missions>>

\* saveMissions: saveNext(0); an empty list resolves at once.
SaveMissions(user, missions) ==
    /\ Len(lcalls) < MaxLocalCalls
    /\ lcalls' = Append(lcalls,
                        [Call("saveMissions",
                              IF Len(missions) = 0 THEN "resolved" ELSE "insert",
                              user)
                            EXCEPT !.missions = missions])
    /\ UNCHANGED <<local_users, daily_summary, daily_missions>>

\* saveMissions: one INSERT ... SELECT id ... FROM users and its callback,
\* which issues the next one or resolves.
SaveMissionsInsert(k) ==
    /\ k \in DOMAIN lcalls
    /\ lcalls[k].op = "saveMissions"
    /\ lcalls[k].pc = "insert"
    /\ LET c == lcalls[k]
       IN /\ daily_missions' =
               IF c.user \in local_users
               THEN Append(daily_missions,
                           [user_id |-> c.user, mission_date |-> Today,
                            mission_title |-> c.missions[c.index + 1]])
               ELSE daily_missions
          /\ lcalls' = [lcalls EXCEPT ![k].index = c.index + 1,
                          ![k].pc = IF c.index + 1 >= Len(c.missions)
                                    THEN "resolved" ELSE "insert"]
    /\ UNCHANGED <<local_users, daily_summary>>

(***************************************************************************)
(* The local store's start (src/src/database/init.js: constructor,         *)
(* initSqlite, createTables, runMigrations).  db.run, db.all and db.get    *)
(* only hand a statement to the driver; it runs later and its callback     *)
(* later still.  Statements handed over before the connection is open wait *)
(* for it; the driver is left in its default mode, in which the statements *)
(* it holds run in no guaranteed order.                                    *)
(***************************************************************************)
MaxQueries == 1

Tables ==
    {"users", "mood_logs", "habit_stakes", "streaks", "daily_summary",
     "daily_missions", "processed_transactions"}

\* The columns runMigrations adds: createTables declares none of them.
MigratedColumns(table) ==
    IF table = "daily_summary"
    THEN {"daily_summary.morning_energy", "daily_summary.evening_mood",
          "daily_summary.missions_json"}
    ELSE IF table = "users" THEN {"users.timezone", "users.vault_balance"}
    ELSE {}

\* What CREATE TABLE IF NOT EXISTS adds for a table the file lacks.
CreatedBy(table) ==
    IF table = "daily_summary"
    THEN {"daily_summary", "daily_summary.morning_energy", "daily_summary.evening_mood"}
    ELSE {table}

FreshSchema == {}
OldSchema == UNION {CreatedBy(t) : t \in Tables}
FullSchema == OldSchema \cup MigratedColumns("daily_summary") \cup MigratedColumns("users")

\* A statement handed to the driver; awaited tells, for a caller's
\* statement, whether the caller had awaited waitReady.
Statement(kind, target) == [kind |-> kind, target |-> target, awaited |-> FALSE]
Query(method, awaited) == [kind |-> "query", target |-> method, awaited |-> awaited]

\* The table an ALTER TABLE ... ADD COLUMN statement names.
AlterTable(column) ==
    IF column \in MigratedColumns("users") THEN "users" ELSE "daily_summary"

CreateStatements == {Statement("create", t) : t \in Tables}
PragmaStatements == {Statement("pragma", "daily_summary"), Statement("pragma", "users")}

\* What a public method's statement needs in the schema.
QueryNeeds(method) ==
    IF method = "creditUserVault" THEN {"users", "users.vault_balance"}
    ELSE IF method = "saveDailySummary" THEN {"users", "daily_summary"}
    ELSE {"users"}

PublicMethods == {"getOrCreateUser", "creditUserVault", "saveDailySummary"}

\* new sqlite3.Database(path, callback) has been called.
Connecting(schema) ==
    [phase |-> "connecting", schema |-> schema, pending |-> {}, done |-> {}]

\* An open connection with nothing left to run.
Connected(schema) ==
    [phase |-> "open", schema |-> schema, pending |-> {},
     done |-> CreateStatements \cup PragmaStatements]

\* The connection callback: an error rejects the ready signal; otherwise
\* createTables and runMigrations hand over their statements and
\* resolveReady() is called, all in the same turn.
SqliteOpen ==
    /\ sqlite.phase = "connecting"
    /\ \E err \in BOOLEAN :
         IF err
         THEN /\ sqlite' = [sqlite EXCEPT !.phase = "failed"]
              /\ readyPromise' = "rejected"
         ELSE /\ sqlite' = [sqlite EXCEPT !.phase = "open",
                               !.pending = sqlite.pending \cup CreateStatements
                                              \cup PragmaStatements]
              /\ readyPromise' = "resolved"
    /\ UNCHANGED queries

\* A public method hands over its statement: after awaiting waitReady, or
\* without (the methods themselves only test this.db, which the constructor
\* has set).
CallerQuery(method, awaited) ==
    /\ Cardinality({q \in sqlite.pending \cup sqlite.done : q.kind = "query"}) < MaxQueries
    /\ sqlite.phase # "failed"
    /\ awaited => readyPromise = "resolved"
    /\ \A q \in sqlite.pending \cup sqlite.done : q.kind = "query" => q.target # method
    /\ sqlite' = [sqlite EXCEPT !.pending = sqlite.pending \cup {Query(method, awaited)}]
    /\ UNCHANGED <<readyPromise, queries>>

\* The driver runs one of the statements it holds and calls its callback.
StatementRuns(st) ==
    /\ sqlite.phase = "open"
    /\ st \in sqlite.pending
    /\ LET rest == sqlite.pending \ {st}
           missing == MigratedColumns(st.target) \ sqlite.schema
       IN sqlite' =
            [sqlite EXCEPT
               !.done = sqlite.done \cup {st},
               !.pending =
                   IF st.kind = "pragma"
                   THEN rest \cup {Statement("alter", c) : c \in missing}
                   ELSE rest,
               !.schema =
                   IF st.kind = "create" /\ st.target \notin sqlite.schema
                   THEN sqlite.schema \cup CreatedBy(st.target)
                   ELSE IF st.kind = "alter" /\ AlterTable(st.target) \in sqlite.schema
                   THEN sqlite.schema \cup {st.target}
                   ELSE sqlite.schema]
    /\ queries' = IF st.kind = "query"
                  THEN queries \cup {[method |-> st.target, awaited |-> st.awaited,
                                      ok |-> QueryNeeds(st.target) \subseteq sqlite.schema]}
                  ELSE queries
    /\ UNCHANGED readyPromise

(***************************************************************************)
(* creditUserVault called directly, for the one user who has a row, in the *)
(* local store (src/src/database/init.js) and in the remote store          *)
(* (src/unnamed/part_001).  The local method is one UPDATE statement; the  *)
(* remote one selects the balance and then updates it, with an await       *)
(* between the two.                                                        *)
(***************************************************************************)
MaxCredits == 3

CreditAmounts == {100, 250}
InitialBalances == {0, 50}

\* base is the balance both stores started with.
NoCredits(base) == [base |-> base, calls |-> <<>>]

CreditCall(store, amount, pc) ==
    [store |-> store, amount |-> amount, pc |-> pc, current |-> 0]

\* Local store: UPDATE users SET vault_balance = COALESCE(vault_balance, 0) + ?
LocalCreditUserVault(amount) ==
    /\ Len(credits.calls) < MaxCredits
    /\ vault_balance' = creditUserVault(vault_balance, KnownUser, amount)
    /\ credits' = [credits EXCEPT
                     !.calls = Append(@, CreditCall("local", amount, "resolved"))]
    /\ UNCHANGED remote_balance

\* Remote store: the call, up to its first request.
RemoteCreditUserVault(amount) ==
    /\ Len(credits.calls) < MaxCredits
    /\ credits' = [credits EXCEPT
                     !.calls = Append(@, CreditCall("remote", amount, "select"))]
    /\ UNCHANGED <<vault_balance, remote_balance>>

\* Remote store: select('id, vault_balance') answers.
RemoteCreditSelect(k) ==
    /\ k \in DOMAIN credits.calls
    /\ credits.calls[k].pc = "select"
    /\ credits' = [credits EXCEPT !.calls[k].pc = "update",
                     !.calls[k].current = remoteSelectBalance(remote_balance)]
    /\ UNCHANGED <<vault_balance, remote_balance>>

\* Remote store: update({vault_balance: current + amount}) answers.
RemoteCreditUpdate(k) ==
    /\ k \in DOMAIN credits.calls
    /\ credits.calls[k].pc = "update"
    /\ remote_balance' = remoteUpdateBalance(credits.calls[k].current,
                                             credits.calls[k].amount)
    /\ credits' = [credits EXCEPT !.calls[k].pc = "resolved"]
    /\ UNCHANGED vault_balance

(***************************************************************************)
(* Remote store daily_logs and the discipline score.  Every remote write   *)
(* is one daily_logs row whose details column is a JSON object; details is *)
(* modelled as a record with the JSON keys as fields, so that reading a    *)
(* key that was never written finds nothing.  The score is computed by the *)
(* HTTP route (src/src/index.js 445-534), by the MCP tool                  *)
(* get_discipline_score (src/unnamed/part_002 117-186) and by the          *)
(* registerApi route (src/unnamed/part_003 292-337).  Each handler is one  *)
(* action: its three reads are taken on the same store contents.           *)
(* Averages are kept as exact fractions sum/count; with at most 7 rows in  *)
(* the average the sum of the three parts is never within rounding error   *)
(* of a half, so Math.round of the double equals the exact rounding.       *)
(* The emotional stability index is not modelled.                          *)
(***************************************************************************)
MaxRemoteWrites == 2
MaxScoreDays == 2
MaxScoreRequests == 2

FirstScoreDay == 4 + 1
ScoreUsers == {7, 8}
\* Number(req.params.telegram_id): 0 stands for every falsy outcome (0, NaN).
ScoreIds == ScoreUsers \cup {0}
StakedAmounts == {5}
ScoreEnergies == {1, 5}
WinsCounts == {0, 2}
WeeklyLimit == 7
ReflectionLimit == 14

RemoteRow(telegramId, log_type, date, details) ==
    [telegram_id |-> telegramId, log_type |-> log_type, date |-> date,
     details |-> details]

\* Rows in the older key spelling, which getTotalStaked (part_001 197) and
\* getWeeklyMoodEnergyData (part_001 259-261) read: one missions row, one
\* daily_summary row and four reflections on four earlier days.
LegacyLogs ==
    <<RemoteRow(7, "missions", 1, [missions |-> <<"run">>, energyLevel |-> 3,
                                   stakedAmount |-> 20]),
      RemoteRow(7, "daily_summary", 1, [morningEnergy |-> 3, missionCount |-> 1,
                                        stakedAmount |-> 20]),
      RemoteRow(7, "sunset_reflection", 1, [sunset_mood |-> 4, wins |-> 1]),
      RemoteRow(7, "sunset_reflection", 2, [sunset_mood |-> 4, wins |-> 1]),
      RemoteRow(7, "sunset_reflection", 3, [sunset_mood |-> 4, wins |-> 1]),
      RemoteRow(7, "sunset_reflection", 4, [sunset_mood |-> 4, wins |-> 1])>>

\* parsed.key: {} when the object has no such key.
JsonGet(parsed, key) == IF key \in DOMAIN parsed THEN {parsed[key]} ELSE {}

\* a ?? b
Coalesce(a, b) == IF a # {} THEN a ELSE b

\* Number(x || 0)
NumberOrZero(x) == IF x = {} THEN 0 ELSE CHOOSE n \in x : TRUE

NewRows == Cardinality({i \in 1..Len(remote_logs) : remote_logs[i].date >= FirstScoreDay})

\* saveMissions (part_001 133-146)
RemoteSaveMissions(telegramId, energyLevel, stakedAmount) ==
    /\ apiDb = "ready"
    /\ NewRows < MaxRemoteWrites
    /\ remote_logs' = Append(remote_logs,
           RemoteRow(telegramId, "missions", scoreDay,
                     [missions |-> <<"run">>, energy_level |-> energyLevel,
                      staked_amount |-> stakedAmount]))
    /\ UNCHANGED <<scoreDay, apiDb, scoreAnswers>>

\* saveDailySummary (part_001 148-161)
RemoteSaveDailySummary(telegramId, morning_energy, staked_amount) ==
    /\ apiDb = "ready"
    /\ NewRows < MaxRemoteWrites
    /\ remote_logs' = Append(remote_logs,
           RemoteRow(telegramId, "daily_summary", scoreDay,
                     [morning_energy |-> morning_energy, total_missions |-> 1,
                      staked_amount |-> staked_amount]))
    /\ UNCHANGED <<scoreDay, apiDb, scoreAnswers>>

\* updateSunsetMood (part_001 273-297)
RemoteUpdateSunsetMood(telegramId, mood, winsCount) ==
    /\ apiDb = "ready"
    /\ NewRows < MaxRemoteWrites
    /\ remote_logs' = Append(remote_logs,
           RemoteRow(telegramId, "sunset_reflection", scoreDay,
                     [sunset_mood |-> mood, wins |-> winsCount]))
    /\ UNCHANGED <<scoreDay, apiDb, scoreAnswers>>

\* new Date().toISOString().split('T')[0] moves to the next date.
ScoreDayPasses ==
    /\ scoreDay < FirstScoreDay + MaxScoreDays - 1
    /\ scoreDay' = scoreDay + 1
    /\ UNCHANGED <<remote_logs, apiDb, scoreAnswers>>

\* .eq('telegram_id', ...).eq('log_type', ...): the indices of the rows.
SelectLogs(logs, telegramId, log_type) ==
    {i \in 1..Len(logs) : logs[i].telegram_id = telegramId /\ logs[i].log_type = log_type}

\* reduce((a, b) => a + b, 0) / total += ... over the rows idx of values.
RECURSIVE SumOver(_, _)
SumOver(values, idx) ==
    IF idx = {} THEN 0
    ELSE LET i == CHOOSE j \in idx : TRUE
         IN values[i] + SumOver(values, idx \ {i})

\* parsed.stakedAmount || 0, then Number(s || 0) (part_001 196-198)
ReadStakedAmount(row) == NumberOrZero(JsonGet(row.details, "stakedAmount"))

\* getTotalStaked (part_001 184-204)
getTotalStaked(logs, telegramId) ==
    SumOver([i \in 1..Len(logs) |-> ReadStakedAmount(logs[i])],
            SelectLogs(logs, telegramId, "missions"))

\* .order('date', { ascending: false }).limit(n): the sets of rows the query
\* may return; rows of one date come in an order the query does not fix.
LimitNewest(logs, idx, n) ==
    IF Cardinality(idx) <= n THEN {idx}
    ELSE {s \in SUBSET idx :
            /\ Cardinality(s) = n
            /\ \A i \in s, j \in idx \ s : logs[i].date >= logs[j].date}

\* Number(w.morning_energy || 0) of a row of getWeeklyMoodEnergyData
\* (part_001 259, index.js 472)
ReadMorningEnergy(row) ==
    NumberOrZero(Coalesce(JsonGet(row.details, "morning_energy"),
                          JsonGet(row.details, "morningEnergy")))

\* Number(parsed.wins || 0) > 0 (index.js 498-499)
HasWins(row) == NumberOrZero(JsonGet(row.details, "wins")) > 0

\* The streaks the loop of index.js 494-502 can count over the reflections
\* dated day or earlier: the rows come newest date first, the rows of one
\* date in any order, and the count stops at the first row without wins.
RECURSIVE StreaksFrom(_, _, _)
StreaksFrom(logs, idx, day) ==
    IF day < 1 THEN {0}
    ELSE LET group == {i \in idx : logs[i].date = day}
             winning == {i \in group : HasWins(logs[i])}
         IN IF winning = group
            THEN {Cardinality(group) + s : s \in StreaksFrom(logs, idx, day - 1)}
            ELSE 0..Cardinality(winning)

Min2(a, b) == IF a < b THEN a ELSE b
Max2(a, b) == IF a > b THEN a ELSE b

Streaks(logs, telegramId, today) ==
    {Min2(ReflectionLimit, s) :
        s \in StreaksFrom(logs, SelectLogs(logs, telegramId, "sunset_reflection"), today)}

\* Math.max(1, Math.min(5, avgEnergy)), times count (index.js 508)
ClampEnergy(sum, count) == Max2(count, Min2(5 * count, sum))

\* Math.min(40, Number(totalStaked)) without the factor 2.
StakeScoreSingle(totalStaked) == Min2(40, totalStaked)

\* Math.min(40, Number(totalStaked) * 2) (index.js 509)
StakeScore(totalStaked) == Min2(40, totalStaked * 2)

\* index.js 508-511 for avgEnergy = sum / count, count > 0:
\* energyScore * count = 8 * ClampEnergy; Math.round rounds halves up.
GritScore(sum, count, totalStaked, streak) ==
    LET energyScore == 8 * ClampEnergy(sum, count)
        stakeScore == StakeScore(totalStaked)
        streakScore == Min2(20, streak * 5)
        total == energyScore + count * (stakeScore + streakScore)
        clamped == Max2(0, Min2(100 * count, total))
    IN (2 * clamped + count) \div (2 * count)

\* index.js 513
ScoreStatus(grit_score) ==
    IF grit_score >= 80 THEN "Elite" ELSE IF grit_score >= 50 THEN "Stable" ELSE "Warning"

\* An answer of one of the three routes.  code is the HTTP status, or
\* "isError" / "result" for the tool; computed tells whether the score was
\* computed from the store; rows is the number of rows the store held.
\* A row as getWeeklyMoodEnergyData returns it (part_001 257-267): the
\* members it copies out of the parsed details, and the date.
WeeklyEntry(row) ==
    [morning_energy |-> Coalesce(JsonGet(row.details, "morning_energy"),
                                 JsonGet(row.details, "morningEnergy")),
     total_missions |-> Coalesce(JsonGet(row.details, "total_missions"),
                                 JsonGet(row.details, "missionCount")),
     staked_amount |-> Coalesce(JsonGet(row.details, "staked_amount"),
                                JsonGet(row.details, "stakedAmount")),
     date |-> row.date]

\* Number(w.sunset_mood || 0) of such a row (index.js 476)
ReadSunsetMood(w) == NumberOrZero(JsonGet(w, "sunset_mood"))

\* Math.round(sum / count * 10) / 10, in tenths.
RoundToTenths(sum, count) == (20 * sum + count) \div (2 * count)

\* Math.round(max(0, min(100, (1 - stdDev / 2) * 100))) for count values
\* with the given sum and sum of squares: stdDev is sqrt(d) / count with
\* d = count * squares - sum * sum, so the result e is the integer with
\* (199 - 2e) * count < 100 * sqrt(d) <= (201 - 2e) * count.
StabilityIndex(sum, squares, count) ==
    LET d == count * squares - sum * sum
        above(e) == \/ 199 - 2 * e < 0
                    \/ (199 - 2 * e) * count * (199 - 2 * e) * count < 10000 * d
        below(e) == \/ e = 0
                    \/ 10000 * d <= (201 - 2 * e) * count * (201 - 2 * e) * count
    IN  CHOOSE e \in 0..100 : above(e) /\ below(e)

\* avg_sunset_mood (in tenths) and emotional_stability_index without moods.
DefaultSunset == [avg_sunset_mood |-> 3 * 10, emotional_stability_index |-> 50]

\* index.js 475-485: the two figures from the weekly rows idx of logs.
SunsetFigures(logs, idx) ==
    LET moods == [i \in 1..Len(logs) |-> ReadSunsetMood(WeeklyEntry(logs[i]))]
        kept == {i \in idx : moods[i] > 0}
        count == Cardinality(kept)
        sum == SumOver(moods, kept)
        squares == SumOver([i \in 1..Len(logs) |-> moods[i] * moods[i]], kept)
    IN  IF count = 0 THEN DefaultSunset
        ELSE [avg_sunset_mood |-> RoundToTenths(sum, count),
              emotional_stability_index |->
                  IF count >= 3 THEN StabilityIndex(sum, squares, count)
                  ELSE DefaultSunset.emotional_stability_index]

ScoreAnswer(route, telegramId, code, computed, sum, count, totalStaked, streak, grit_score, status) ==
    [route |-> route, telegram_id |-> telegramId, code |-> code, computed |-> computed,
     energy_sum |-> sum, energy_count |-> count, total_staked |-> totalStaked,
     streak |-> streak, grit_score |-> grit_score, status |-> status,
     sunset |-> DefaultSunset, rows |-> Len(remote_logs)]

NoScore(route, telegramId, code) ==
    ScoreAnswer(route, telegramId, code, FALSE, 0, 0, 0, 0, 0, "")

\* index.js 465-513, part_002 129-165, part_003 298-325: the answers the
\* computation can give on the present store contents.
ComputedScores(route, telegramId, code) ==
    {LET energies == SumOver([i \in 1..Len(remote_logs) |->
                                 ReadMorningEnergy(remote_logs[i])], weekly)
         sum == IF weekly = {} THEN 3 ELSE energies
         count == IF weekly = {} THEN 1 ELSE Cardinality(weekly)
         totalStaked == getTotalStaked(remote_logs, telegramId)
         grit_score == GritScore(sum, count, totalStaked, streak)
     IN [ScoreAnswer(route, telegramId, code, TRUE, sum, count, totalStaked, streak,
                     grit_score, ScoreStatus(grit_score))
             EXCEPT !.sunset = SunsetFigures(remote_logs, weekly)] :
        weekly \in LimitNewest(remote_logs,
                               SelectLogs(remote_logs, telegramId, "daily_summary"),
                               WeeklyLimit),
        streak \in Streaks(remote_logs, telegramId, scoreDay)}

Answer(a) ==
    /\ Cardinality(scoreAnswers) < MaxScoreRequests
    /\ scoreAnswers' = scoreAnswers \cup {a}
    /\ UNCHANGED <<remote_logs, scoreDay, apiDb>>

\* disciplineScoreHandler (index.js 445-534)
HttpDisciplineScore(telegramId) ==
    IF telegramId = 0 THEN Answer(NoScore("http", telegramId, "400"))
    ELSE IF apiDb = "null"
    THEN Answer(ScoreAnswer("http", telegramId, "200", FALSE, 3, 1, 0, 0, 0, "Warning"))
    ELSE \E a \in ComputedScores("http", telegramId, "200") : Answer(a)

\* mountMCPRoutes(app, { db: null }) (index.js 272)
McpDeps == [db |-> "null"]

\* executeTool, case 'get_discipline_score' (part_002 117-186)
McpGetDisciplineScore(telegramId) ==
    IF telegramId = 0 THEN Answer(NoScore("mcp", telegramId, "isError"))
    ELSE IF McpDeps.db = "null" THEN Answer(NoScore("mcp", telegramId, "isError"))
    ELSE \E a \in ComputedScores("mcp", telegramId, "result") : Answer(a)

\* The route of registerApi(app, apiDb) (part_003 292-337); a null apiDb
\* makes apiDb.getWeeklyMoodEnergyData throw, which the catch answers.
ApiDisciplineScore(telegramId) ==
    IF telegramId = 0 THEN Answer(NoScore("api", telegramId, "400"))
    ELSE IF apiDb = "null" THEN Answer(NoScore("api", telegramId, "500"))
    ELSE \E a \in ComputedScores("api", telegramId, "200") : Answer(a)

(***************************************************************************)
(* MCP server over HTTP (src/unnamed/part_002).  The server keeps no state *)
(* between requests; mcpExchange holds the request POST /mcp handled last, *)
(* the response handleMCPMessage gave to each of its messages, and the     *)
(* tools executeTool was called for.                                       *)
(***************************************************************************)
MaxBatch == 2

JsNull == [t |-> "null", s |-> "", n |-> 0, o |-> <<>>]

\* !v for the values an id can be
JsFalsy(v) ==
    \/ v.t \in {"undefined", "null"}
    \/ v.t = "number" /\ v.n = 0
    \/ v.t = "string" /\ v.s = "" /\ v.n = 0

\* id || null
OrNull(v) == IF JsFalsy(v) THEN JsNull ELSE v

MCP_PROTOCOL_VERSION == "2024-11-05"
SERVER_NAME == "myday-guardian"
SERVER_VERSION == "2.0.0"

\* The names of MCP_TOOLS, in catalog order.
MCP_TOOLS ==
    <<"get_discipline_score", "stake_habit", "verify_x402_payment",
      "get_agent_metadata", "get_x402_requirements">>

ToolNames == {MCP_TOOLS[i] : i \in 1..Len(MCP_TOOLS)}

\* params.arguments: the members the tools read; "" stands for an absent one.
ToolArgs(telegram_id, amount, txHash) ==
    [telegram_id |-> telegram_id, amount |-> amount, txHash |-> txHash]

NoArgs == ToolArgs(0, "", "")

\* A JSON-RPC message: params.name is "" when params or the name is absent.
McpMessage(jsonrpc, method, id, name, args) ==
    [jsonrpc |-> jsonrpc, method |-> method, id |-> id, name |-> name, args |-> args]

McpIds == {JsUndef, JsNum(0), JsNum(7), JsStr("a")}

PlainMethods ==
    {"initialize", "notifications/initialized", "ping", "tools/list", "resources/list"}

ToolCalls ==
    {[name |-> "", args |-> NoArgs],
     [name |-> "delete_user", args |-> NoArgs],
     [name |-> "get_discipline_score", args |-> ToolArgs(7, "", "")],
     [name |-> "stake_habit", args |-> ToolArgs(0, "1.00", "")],
     [name |-> "stake_habit", args |-> ToolArgs(0, "1e999", "")],
     [name |-> "verify_x402_payment", args |-> ToolArgs(0, "", "0xabc")],
     [name |-> "get_agent_metadata", args |-> NoArgs],
     [name |-> "get_x402_requirements", args |-> NoArgs],
     [name |-> "get_x402_requirements", args |-> ToolArgs(0, "abc", "")]}

McpMessages ==
    {McpMessage("2.0", method, id, "", NoArgs) : method \in PlainMethods, id \in McpIds}
    \cup {McpMessage("1.0", method, id, "", NoArgs) :
            method \in {"initialize", "resources/list"}, id \in McpIds}
    \cup {McpMessage("2.0", "tools/call", id, c.name, c.args) : id \in McpIds, c \in ToolCalls}

\* parseFloat(x) / Number(x) of an amount: what kind of number it is.
ParseFloat(amount) ==
    IF amount = "1.00" THEN "finite" ELSE IF amount = "1e999" THEN "Infinity" ELSE "NaN"

ToolOutcome(outcome, toolName) == [outcome |-> outcome, tool |-> toolName]

NotInvoked == ToolOutcome("none", "")

\* executeTool (part_002 113-292): the ways a call can end: a result, a
\* result flagged isError, or an exception.  BigInt(Math.round(x)) throws a
\* RangeError when x is NaN or infinite.
executeTool(toolName, args, vault) ==
    CASE toolName = "get_discipline_score" ->
            IF args.telegram_id = 0 THEN {ToolOutcome("isError", toolName)}
            ELSE IF McpDeps.db = "null" THEN {ToolOutcome("isError", toolName)}
            ELSE {ToolOutcome("result", toolName), ToolOutcome("isError", toolName)}
      [] toolName = "stake_habit" ->
            \* parseFloat(args.amount) || 0
            LET amount == IF ParseFloat(args.amount) = "NaN" THEN "finite"
                          ELSE ParseFloat(args.amount)
            IN IF vault = "" THEN {ToolOutcome("isError", toolName)}
               ELSE IF amount # "finite" THEN {ToolOutcome("throws", toolName)}
               ELSE {ToolOutcome("result", toolName)}
      [] toolName = "verify_x402_payment" ->
            IF args.txHash = "" THEN {ToolOutcome("isError", toolName)}
            ELSE IF vault = "" THEN {ToolOutcome("isError", toolName)}
            ELSE {ToolOutcome("result", toolName), ToolOutcome("isError", toolName)}
      [] toolName = "get_agent_metadata" -> {ToolOutcome("result", toolName)}
      [] toolName = "get_x402_requirements" ->
            \* args.amount || 0.10
            LET amount == IF args.amount = "" THEN "finite" ELSE ParseFloat(args.amount)
            IN IF vault = "" THEN {ToolOutcome("isError", toolName)}
               ELSE IF amount # "finite" THEN {ToolOutcome("throws", toolName)}
               ELSE {ToolOutcome("result", toolName)}
      [] OTHER -> {ToolOutcome("isError", toolName)}

\* A JSON-RPC response; kind "null" is the null handleMCPMessage returns.
\* result / error name what the response holds, code is error.code.
McpResponse(kind, id, result, isError, code) ==
    [kind |-> kind, id |-> id, result |-> result, isError |-> isError, code |-> code]

McpResult(id, result) == McpResponse("response", id, result, FALSE, 0)
McpError(id, code) == McpResponse("response", id, "error", FALSE, code)
McpNull == McpResponse("null", JsUndef, "", FALSE, 0)

InitializeResult ==
    <<"protocolVersion", MCP_PROTOCOL_VERSION, "capabilities", "tools",
      "serverInfo", SERVER_NAME, SERVER_VERSION>>

\* The tool call made for any name that is present, in the catalog or not.
ToolCallsOfAnyName(message, vault) ==
    IF message.jsonrpc = "2.0" /\ message.method = "tools/call" /\ message.name # ""
    THEN executeTool(message.name, message.args, vault)
    ELSE {NotInvoked}

\* The tool call handleMCPMessage makes for the message: the outcomes of
\* executeTool when the name is in the catalog, no call otherwise
\* (part_002 351-365).
ToolCallsOf(message, vault) ==
    IF message.jsonrpc = "2.0" /\ message.method = "tools/call"
       /\ message.name # "" /\ message.name \in ToolNames
    THEN executeTool(message.name, message.args, vault)
    ELSE {NotInvoked}

\* handleMCPMessage (part_002 304-385); called is how the tool call ended.
handleMCPMessage(message, called) ==
    IF message.jsonrpc # "2.0" THEN McpError(OrNull(message.id), -32600)
    ELSE CASE message.method = "initialize" -> McpResult(message.id, InitializeResult)
           [] message.method = "notifications/initialized" -> McpNull
           [] message.method = "ping" -> McpResult(message.id, <<>>)
           [] message.method = "tools/list" -> McpResult(message.id, MCP_TOOLS)
           [] message.method = "tools/call" ->
                IF message.name = "" THEN McpError(message.id, -32602)
                ELSE IF message.name \notin ToolNames THEN McpError(message.id, -32602)
                ELSE IF called.outcome = "throws"
                THEN McpResponse("response", message.id, "content", TRUE, 0)
                ELSE McpResponse("response", message.id, "content",
                                 called.outcome = "isError", 0)
           [] OTHER -> McpError(OrNull(message.id), -32601)

NoExchange == [batch |-> FALSE, messages |-> <<>>, calls |-> <<>>, responses |-> <<>>,
               status |-> "none", body |-> <<>>]

\* The non-null results, in order (part_002 404-407).
RECURSIVE NonNull(_)
NonNull(responses) ==
    IF responses = <<>> THEN <<>>
    ELSE IF Head(responses).kind = "null" THEN NonNull(Tail(responses))
    ELSE <<Head(responses)>> \o NonNull(Tail(responses))

\* The ways the tool calls of the messages can end, one per message.
RECURSIVE ToolCallsOfAll(_, _)
ToolCallsOfAll(messages, vault) ==
    IF messages = <<>> THEN {<<>>}
    ELSE {<<called>> \o rest : called \in ToolCallsOf(Head(messages), vault),
                               rest \in ToolCallsOfAll(Tail(messages), vault)}

\* app.post('/mcp') with one message as the body (part_002 411-416)
McpPostSingle ==
    /\ mcpExchange = NoExchange
    /\ \E message \in McpMessages : \E called \in ToolCallsOf(message, mcpVault) :
          LET response == handleMCPMessage(message, called)
          IN mcpExchange' = [batch |-> FALSE, messages |-> <<message>>,
                             calls |-> <<called>>, responses |-> <<response>>,
                             status |-> IF response.kind = "null" THEN "204" ELSE "200",
                             body |-> NonNull(<<response>>)]
    /\ UNCHANGED mcpVault

\* req.body when it is an array
Batches == UNION {[1..n -> McpMessages] : n \in 0..MaxBatch}

\* app.post('/mcp') with an array as the body (part_002 402-409)
McpPostBatch ==
    /\ mcpExchange = NoExchange
    /\ \E messages \in Batches : \E calls \in ToolCallsOfAll(messages, mcpVault) :
          LET responses == [i \in 1..Len(messages) |->
                               handleMCPMessage(messages[i], calls[i])]
          IN mcpExchange' = [batch |-> TRUE, messages |-> messages, calls |-> calls,
                                responses |-> responses, status |-> "200",
                                body |-> NonNull(responses)]
    /\ UNCHANGED mcpVault

\* res.json / res.sendStatus has answered; the server waits for a request.
McpSent ==
    /\ mcpExchange # NoExchange
    /\ mcpExchange' = NoExchange
    /\ UNCHANGED mcpVault

(***************************************************************************)
(* MCP server over stdio (src/mcp-server/index.js 185-232).  Each input    *)
(* line runs the 'line' handler; the handler of a tools/call line stops at *)
(* its await of handleToolCall and writes when the call has ended, while   *)
(* later lines are read.  A written line remembers the input line it       *)
(* answers.                                                                *)
(***************************************************************************)
MaxStdinLines == 3

\* An input line: json tells what JSON.parse makes of it, params whether
\* msg.params is present, tool is msg.params.name.
StdinLine(json, method, id, params, tool) ==
    [json |-> json, method |-> method, id |-> id, params |-> params, tool |-> tool]

StdinLines ==
    {StdinLine("invalid", "", JsUndef, FALSE, ""), StdinLine("null", "", JsUndef, FALSE, "")}
    \cup {StdinLine("object", method, id, FALSE, "") :
            method \in {"initialize", "tools/list", "ping", "resources/list"},
            id \in {JsNum(0), JsNum(7)}}
    \cup {StdinLine("object", "notifications/initialized", id, FALSE, "") :
            id \in {JsUndef, JsNum(7)}}
    \cup {StdinLine("object", "tools/call", id, FALSE, "") : id \in {JsNum(0), JsNum(7)}}
    \cup {StdinLine("object", "tools/call", id, TRUE, tool) :
            id \in {JsNum(0), JsNum(7)}, tool \in {"get_discipline_score", "stake_habit"}}

\* A line written to standard output: JSON.stringify({ jsonrpc, id, result }).
StdoutLine(answers, id, result) == [answers |-> answers, id |-> id, result |-> result]

\* The 'line' handler up to its end or its first await, answering nothing
\* to ping.
StdioWritesNoPing(i, line) ==
    IF line.json # "object" THEN <<>>
    ELSE CASE line.method = "initialize" -> <<StdoutLine(i, line.id, "initialize")>>
           [] line.method = "tools/list" -> <<StdoutLine(i, line.id, "tools")>>
           [] line.method = "tools/call" /\ ~line.params -> <<StdoutLine(i, line.id, "error")>>
           [] OTHER -> <<>>

\* What the 'line' handler writes to standard output before it ends or
\* awaits (index.js 188-227); msg.params.name throws inside the inner try
\* when params is absent, and the inner catch writes.
StdioWrites(i, line) ==
    IF line.json # "object" THEN <<>>
    ELSE CASE line.method = "initialize" -> <<StdoutLine(i, line.id, "initialize")>>
           [] line.method = "tools/list" -> <<StdoutLine(i, line.id, "tools")>>
           [] line.method = "tools/call" /\ ~line.params -> <<StdoutLine(i, line.id, "error")>>
           [] line.method = "ping" -> <<StdoutLine(i, line.id, "empty")>>
           [] OTHER -> <<>>

\* The outer catch (index.js 228-230): JSON.parse threw, or msg is null and
\* msg.method threw.
StdioReports(i, line) == IF line.json # "object" THEN <<i>> ELSE <<>>

\* rl.on('line', ...) for the next input line
StdioLine(line) ==
    /\ Len(stdioLines) < MaxStdinLines
    /\ LET i == Len(stdioLines) + 1
       IN /\ stdioLines' = Append(stdioLines, line)
          /\ stdout' = stdout \o StdioWrites(i, line)
          /\ stderr' = stderr \o StdioReports(i, line)
          /\ stdioPending' =
                IF line.json = "object" /\ line.method = "tools/call" /\ line.params
                THEN stdioPending \cup {i} ELSE stdioPending

\* handleToolCall has resolved (a result) or rejected (the inner catch):
\* either way one line is written (index.js 209-222).
StdioToolDone(i, outcome) ==
    /\ i \in stdioPending
    /\ stdioPending' = stdioPending \ {i}
    /\ stdout' = Append(stdout, StdoutLine(i, stdioLines[i].id, outcome))
    /\ UNCHANGED <<stdioLines, stderr>>

(***************************************************************************)
(* Bot error boundaries (src/src/bot.js).  setupHandlers (65-86) registers *)
(* seven handlers; a run of one of them in which an awaited call rejects   *)
(* ends in the catch block that encloses the call.  chatReplies records,   *)
(* per such run, the handler, the call that rejected and the text the      *)
(* catch block sent ("" when it sent nothing).                             *)
(***************************************************************************)
MaxFailures == 2

Recalibrating ==
    "MyDay Intel is recalibrating. I've safely recorded your progress, but I need a moment. Please try your last command again."

\* The calls that can reject inside each handler registered by
\* setupHandlers; handleMorningNudge (672-684) awaits nothing.
Rejections ==
    [handleStart |-> {"waitReady", "getOrCreateUser"},
     handleSetTimezone |-> {"updateUserTimezone"},
     handleReservoir |-> {"waitReady", "getUserById", "getTotalStaked", "isVerified"},
     handleMorningNudge |-> {},
     handleSunsetReflection |-> {"getTodayMissions"},
     handleAllMessages |-> {"waitReady", "handleOnboardingCity.updateUserTimezone",
                            "handleMissionBriefingConfirm.saveMissions",
                            "handleMissionAudit.getTodayMissions",
                            "handleSunsetMoodInput.updateSunsetMood"},
     handleEveningAudit |-> {"getTodayMissions"}]

TopLevelHandlers == DOMAIN Rejections

\* The text the catch block that encloses the rejected call sends; "" when
\* it sends nothing, "summary" when the handler goes on to its usual reply.
CatchText(handler, rejected) ==
    CASE handler = "handleStart" -> Recalibrating                      \* 233-239
      [] handler = "handleSetTimezone" ->
            "Sorry, could not save your timezone."                     \* 254-257
      [] handler = "handleReservoir" /\ rejected = "getTotalStaked" ->
            "summary"                                                  \* 276-280
      [] handler = "handleReservoir" /\ rejected # "getTotalStaked" ->
            "Sorry, could not fetch your reservoir summary."           \* 314-317
      [] handler = "handleSunsetReflection" -> Recalibrating           \* 852-858
      [] handler = "handleEveningAudit" -> Recalibrating               \* 721-727
      [] handler = "handleAllMessages" /\ rejected = "waitReady" -> "" \* 93-98
      [] handler = "handleAllMessages"
         /\ rejected = "handleOnboardingCity.updateUserTimezone" ->
            "Sorry, something went wrong saving your city/timezone. Try /settimezone to set it manually."
      [] OTHER -> Recalibrating                            \* 660-666, 819-825, 954-960

\* A run of a registered handler in which the call rejected.
HandlerCatches(handler, rejected) ==
    /\ Len(chatReplies) < MaxFailures
    /\ rejected \in Rejections[handler]
    /\ chatReplies' = Append(chatReplies,
           [handler |-> handler, rejected |-> rejected, escaped |-> FALSE,
            text |-> CatchText(handler, rejected)])

handleStartCatches == \E r \in Rejections.handleStart : HandlerCatches("handleStart", r)
handleSetTimezoneCatches ==
    \E r \in Rejections.handleSetTimezone : HandlerCatches("handleSetTimezone", r)
handleReservoirCatches ==
    \E r \in Rejections.handleReservoir : HandlerCatches("handleReservoir", r)
handleSunsetReflectionCatches ==
    \E r \in Rejections.handleSunsetReflection : HandlerCatches("handleSunsetReflection", r)
handleAllMessagesCatches ==
    \E r \in Rejections.handleAllMessages : HandlerCatches("handleAllMessages", r)
handleEveningAuditCatches ==
    \E r \in Rejections.handleEveningAudit : HandlerCatches("handleEveningAudit", r)

(***************************************************************************)
(* Remote store construction and degraded mode (src/unnamed/part_001       *)
(* 12-51, and the guards of each method).  remoteDb is the instance;       *)
(* remoteCalls records how each method call on it ended.                   *)
(***************************************************************************)
MaxRemoteCalls == 2

\* config.url || process.env.SUPABASE_URL and the key likewise: "" is falsy.
Credentials == {"", "url"} \X {"", "key"}

\* constructor (part_001 12-26)
Constructed(url, key) ==
    IF url = "" \/ key = ""
    THEN [client |-> "null", ready |-> FALSE, readyPromise |-> "false", threw |-> FALSE]
    ELSE [client |-> "client", ready |-> FALSE, readyPromise |-> "pending", threw |-> FALSE]

\* _init (part_001 28-42) settles readyPromise.
RemoteInit(ok) ==
    /\ remoteDb.readyPromise = "pending"
    /\ remoteDb' = IF ok THEN [remoteDb EXCEPT !.ready = TRUE, !.readyPromise = "true"]
                   ELSE [remoteDb EXCEPT !.readyPromise = "rejected"]
    /\ UNCHANGED remoteCalls

\* waitReady (part_001 44-47): what the returned promise is settled with,
\* "pending" while it is not.
waitReadyOf(db) == IF db.client = "null" THEN "false" ELSE db.readyPromise

\* The methods that query this.client.
QueryMethods ==
    {"getOrCreateUser", "getUserById", "updateUserTimezone", "recordVerificationAttempt",
     "saveMissions", "saveDailySummary", "getTodayMissions", "getTotalStaked",
     "updateMissionCompletion", "getTodaySummary", "getWeeklyMoodEnergyData",
     "updateSunsetMood", "listUsers", "recordProcessedTransaction", "creditUserVault"}

\* The legacy helpers (part_001 343-349) and what each resolves.
LegacyShims ==
    [hasProcessedTransaction |-> "false", incrementStreak |-> "true", resetStreak |-> "true",
     getTodayStake |-> "null", getRecentMoodHistory |-> "[]",
     getCompletionRate |-> "{total_stakes: 0, completed_stakes: 0, completion_rate: 0}"]

RemoteCall(method, outcome, value) == [method |-> method, outcome |-> outcome, value |-> value]

\* The querying methods if a missing client made them resolve null.
QueryOutcomesOptionalClient(db, method) ==
    IF db.client = "null" THEN {RemoteCall(method, "resolves", "null")}
    ELSE {RemoteCall(method, "resolves", "data"), RemoteCall(method, "rejects", "query error")}

\* How a call of a querying method can end once waitReady has settled:
\* getOrCreateUser throws in _guardClient (57), the others reach
\* this.client.from(...) on a null client, a TypeError; with a client the
\* query yields data or an error that is thrown.
QueryOutcomes(db, method) ==
    IF db.client = "null"
    THEN IF method = "getOrCreateUser"
         THEN {RemoteCall(method, "rejects", "Database unavailable")}
         ELSE {RemoteCall(method, "rejects", "TypeError")}
    ELSE IF waitReadyOf(db) = "rejected" THEN {RemoteCall(method, "rejects", "init error")}
    ELSE {RemoteCall(method, "resolves", "data"), RemoteCall(method, "rejects", "query error")}

\* A call of waitReady on the instance.
RemoteWaitReady ==
    /\ Len(remoteCalls) < MaxRemoteCalls
    /\ waitReadyOf(remoteDb) # "pending"
    /\ remoteCalls' = Append(remoteCalls,
           IF waitReadyOf(remoteDb) = "rejected"
           THEN RemoteCall("waitReady", "rejects", "init error")
           ELSE RemoteCall("waitReady", "resolves", waitReadyOf(remoteDb)))
    /\ UNCHANGED remoteDb

\* A call of one of the querying methods.
RemoteQuery(method) ==
    /\ Len(remoteCalls) < MaxRemoteCalls
    /\ waitReadyOf(remoteDb) # "pending"
    /\ \E call \in QueryOutcomes(remoteDb, method) : remoteCalls' = Append(remoteCalls, call)
    /\ UNCHANGED remoteDb

\* A call of one of the legacy helpers.
RemoteShim(method) ==
    /\ Len(remoteCalls) < MaxRemoteCalls
    /\ remoteCalls' = Append(remoteCalls, RemoteCall(method, "resolves", LegacyShims[method]))
    /\ UNCHANGED remoteDb

(***************************************************************************)
(* SelfClaw keypair (src/src/agent/self_handshake.js and                  *)
(* src/scripts/autonomous-handshake.js).  Both files define the same      *)
(* loadOrCreateKeypair over the same data/selfclaw-keys.json.  Each run   *)
(* is a process; the synchronous file-system calls of one call are the    *)
(* steps that runs interleave on.                                          *)
(***************************************************************************)
MaxKeyRuns == 2
MaxKeyCalls == 3
MaxKeyRemovals == 1

KeyRuns == 1..MaxKeyRuns

\* generateKeyPairSync('ed25519') followed by the two base64 DER exports:
\* the n-th generated pair, different from every pair generated before.
GeneratedKeypair(n) ==
    [publicKeySpki |-> <<"spki", n>>, privateKeyPkcs8 |-> <<"pkcs8", n>>]

\* The key file: missing, opened and truncated but not yet written, or the
\* text JSON.stringify({ publicKeySpki, privateKeyPkcs8 }, null, 2).
NoKeysFile == [kind |-> "missing"]
EmptyKeysFile == [kind |-> "text", text |-> <<>>]
KeysJsonStringify(pair) ==
    [kind |-> "text",
     text |-> <<"publicKeySpki", pair.publicKeySpki,
                "privateKeyPkcs8", pair.privateKeyPkcs8>>]

\* JSON.parse of the text read from the file; {} when it throws.
KeysJsonParse(text) ==
    IF Len(text) = 4 /\ text[1] = "publicKeySpki" /\ text[3] = "privateKeyPkcs8"
    THEN {[publicKeySpki |-> text[2], privateKeyPkcs8 |-> text[4]]}
    ELSE {}

\* fs.existsSync(KEYS_FILE) that never finds the file.
KeysFileNeverExists(file) ==
    FALSE

\* fs.existsSync(KEYS_FILE)
KeysFileExists(file) ==
    file.kind # "missing"

IdleKeyCall == [pc |-> "idle"]

IdleKeyProcs == [p \in KeyRuns |-> IdleKeyCall]

KeyCallsBegun ==
    Len(keyLog) + Cardinality({p \in KeyRuns : keyProcs[p].pc # "idle"})

\* found: what the call saw of the key file, at existsSync and, when it
\* went on to read, at readFileSync.
KeyCallDone(p, outcome, keys, fresh, wrote, found) ==
    /\ keyLog' = Append(keyLog,
           [run |-> p, started |-> keyProcs[p].started, outcome |-> outcome,
            keys |-> keys, fresh |-> fresh, wrote |-> wrote,
            found |-> found])
    /\ keyProcs' = [keyProcs EXCEPT ![p] = IdleKeyCall]

\* loadOrCreateKeypair() is entered and tests fs.existsSync(KEYS_FILE).
KeyCheck(p) ==
    /\ keyProcs[p].pc = "idle"
    /\ KeyCallsBegun < MaxKeyCalls
    /\ keyProcs' = [keyProcs EXCEPT ![p] =
           [pc |-> IF KeysFileExists(keysFile) THEN "exists" ELSE "absent",
            started |-> Len(keyLog), atCheck |-> keysFile]]
    /\ UNCHANGED <<keysFile, nextKeypair, keyRemovals, keyLog>>

\* The file was found: JSON.parse(fs.readFileSync(KEYS_FILE, 'utf8')) and
\* the saved pair is returned with fresh: false.
KeyLoad(p) ==
    /\ keyProcs[p].pc = "exists"
    /\ IF keysFile.kind = "missing" \/ KeysJsonParse(keysFile.text) = {}
       THEN KeyCallDone(p, "threw", {}, FALSE, FALSE,
                        <<keyProcs[p].atCheck, keysFile>>)
       ELSE KeyCallDone(p, "returned", KeysJsonParse(keysFile.text),
                        FALSE, FALSE, <<keyProcs[p].atCheck, keysFile>>)
    /\ UNCHANGED <<keysFile, nextKeypair, keyRemovals>>

\* The file was not found: a pair is generated and exported, the data
\* directory is made and writeFileSync opens the file, truncating it.
KeyGenerate(p) ==
    /\ keyProcs[p].pc = "absent"
    /\ keyProcs' = [keyProcs EXCEPT ![p] =
           [pc |-> "writing", started |-> keyProcs[p].started,
            atCheck |-> keyProcs[p].atCheck,
            pair |-> GeneratedKeypair(nextKeypair)]]
    /\ nextKeypair' = nextKeypair + 1
    /\ keysFile' = EmptyKeysFile
    /\ UNCHANGED <<keyRemovals, keyLog>>

\* writeFileSync writes the text and the pair is returned with fresh: true.
KeyWrite(p) ==
    /\ keyProcs[p].pc = "writing"
    /\ keysFile' = KeysJsonStringify(keyProcs[p].pair)
    /\ KeyCallDone(p, "returned", {keyProcs[p].pair}, TRUE, TRUE,
                   <<keyProcs[p].atCheck>>)
    /\ UNCHANGED <<nextKeypair, keyRemovals>>

\* Something other than the program deletes the key file.
KeysFileRemoved ==
    /\ keyRemovals < MaxKeyRemovals
    /\ keysFile.kind # "missing"
    /\ keysFile' = NoKeysFile
    /\ keyRemovals' = keyRemovals + 1
    /\ UNCHANGED <<nextKeypair, keyProcs, keyLog>>

(***************************************************************************)
(* Discipline-to-mood correlation (src/src/x402/middleware.js 440-494).    *)
(***************************************************************************)
MaxWeeklyRecords == 3

\* mood_delta = eveningMood - morningEnergy with both in 1..5, or null.
MoodDeltas == (1 - 5)..(5 - 1)
MoodDeltaValues == {JsNull} \cup {JsNum(d) : d \in MoodDeltas}

WeeklyRecord(delta) == [mood_delta |-> delta]

WeeklyDatas ==
    UNION {[1..n -> {WeeklyRecord(d) : d \in MoodDeltaValues}] : n \in 0..MaxWeeklyRecords}

\* records.map(d => d.mood_delta).filter(v => v !== null)
RECURSIVE NonNullDeltas(_)
NonNullDeltas(records) ==
    IF records = <<>> THEN <<>>
    ELSE LET v == Head(records).mood_delta
         IN  (IF v # JsNull THEN <<v.n>> ELSE <<>>) \o NonNullDeltas(Tail(records))

\* deltas.reduce((a, b) => a + b, 0)
RECURSIVE SumDeltas(_)
SumDeltas(deltas) ==
    IF deltas = <<>> THEN 0 ELSE Head(deltas) + SumDeltas(Tail(deltas))

Abs(x) == IF x < 0 THEN 0 - x ELSE x

\* (sum / count).toFixed(1): the decimal string with one fraction digit
\* nearest to the quotient, the one larger in magnitude on a tie; held as
\* its number of tenths.  exact: the string equals the quotient.
ToFixedOne(sum, count) ==
    [tenths |-> (IF sum < 0 THEN 0 - 1 ELSE 1)
                    * ((20 * Abs(sum) + count) \div (2 * count)),
     exact |-> (10 * Abs(sum)) % count = 0]

\* avgDelta: the toFixed(1) string, or the number 0 without deltas.
AvgDelta(deltas) ==
    IF Len(deltas) > 0 THEN ToFixedOne(SumDeltas(deltas), Len(deltas))
    ELSE [tenths |-> 0, exact |-> TRUE]

\* The if / else-if chain on avgDelta; the string is converted to a number
\* by each comparison.
CorrelationType(avgDelta) ==
    IF avgDelta.tenths > 10 THEN "positive_strong"
    ELSE IF avgDelta.tenths > 3 THEN "positive_mild"
    ELSE IF avgDelta.tenths < 0 - 10 THEN "negative_strong"
    ELSE IF avgDelta.tenths < 0 - 3 THEN "negative_mild"
    ELSE "neutral"

NotAnalyzed == [correlation |-> "not_analyzed"]

analyzeDisciplineMoodCorrelation(records) ==
    IF Len(records) = 0
    THEN [correlation |-> "insufficient_data"]
    ELSE LET deltas == NonNullDeltas(records)
         IN  [averageDelta |-> AvgDelta(deltas),
              correlationType |-> CorrelationType(AvgDelta(deltas)),
              dataPoints |-> Len(records)]

\* One call of analyzeDisciplineMoodCorrelation(weeklyData).
AnalyzeCorrelation ==
    /\ correlation = NotAnalyzed
    /\ correlation' = analyzeDisciplineMoodCorrelation(weeklyData)
    /\ UNCHANGED weeklyData

(***************************************************************************)
(* Mission Audit (src/src/bot.js 733-826): handleMissionAudit for one     *)
(* reply of a user whose flow state is mission_audit.  The reply is the    *)
(* text "none" or the pieces text.split(/[,\s]+/) gives.                   *)
(***************************************************************************)
MaxAuditMissions == 3
MaxAuditPieces == 3

AuditPieces == {"0", "1", "2", "3", "4", "2nd", "x"}

AuditReplyNone == <<"none">>

AuditReplies ==
    {AuditReplyNone} \cup UNION {[1..n -> AuditPieces] : n \in 1..MaxAuditPieces}

\* parseInt(s): the number a piece starts with, {} for NaN.
AuditParseInt(s) ==
    IF s = "0" THEN {0}
    ELSE IF s = "1" THEN {1}
    ELSE IF s \in {"2", "2nd"} THEN {2}
    ELSE IF s = "3" THEN {3}
    ELSE IF s = "4" THEN {4}
    ELSE {}

\* .map(s => isNaN(n) ? null : n - 1).filter(n => n !== null && n >= 0 &&
\* n < missions.length): the 0-based indices kept, in the reply's order,
\* each as often as the reply names it.
RECURSIVE CompletedIndicies(_, _)
CompletedIndicies(pieces, count) ==
    IF pieces = <<>> THEN <<>>
    ELSE LET n == AuditParseInt(Head(pieces))
             kept == {v - 1 : v \in {w \in n : w - 1 >= 0 /\ w - 1 < count}}
         IN  (IF kept = {} THEN <<>> ELSE <<CHOOSE v \in kept : TRUE>>)
                 \o CompletedIndicies(Tail(pieces), count)

\* completedIndicies of handleMissionAudit for the reply.
CompletedOf(reply, count) ==
    IF reply = AuditReplyNone THEN <<>> ELSE CompletedIndicies(reply, count)

\* completedIndicies.includes(i)
Includes(indices, i) == \E k \in DOMAIN indices : indices[k] = i

\* The coaching text chosen from completionRate =
\* completedIndicies.length / missions.length.
CoachingTier(completed, count) ==
    IF completed = count THEN "legendary"
    ELSE IF 100 * completed >= 66 * count THEN "strong_work"
    ELSE IF completed > 0 THEN "one_win"
    ELSE "those_days"

AuditIdle == [pc |-> "idle"]

\* A message arrives in mission_audit: handleMissionAudit lower-cases the
\* text and awaits getTodayMissions.
AuditBegin(reply) ==
    /\ userFlowState = "mission_audit"
    /\ audit = AuditIdle
    /\ audit' = [pc |-> "getTodayMissions", reply |-> reply]
    /\ UNCHANGED <<todayMissions, userFlowState>>

\* The text sent in the end, with the tier's coaching.
AuditSummary(a, completed, count) ==
    [a EXCEPT !.pc = "done", !.tier = CoachingTier(Len(completed), count)]

\* getTodayMissions resolves: without missions the flow state is deleted;
\* else the indices are parsed and the first update is awaited.
AuditGetTodayMissions ==
    /\ audit.pc = "getTodayMissions"
    /\ IF todayMissions = 0
       THEN /\ audit' = [pc |-> "done", reply |-> audit.reply, completed |-> <<>>,
                         updates |-> <<>>, tier |-> "no_reply"]
            /\ userFlowState' = Undef
       ELSE /\ audit' = [pc |-> "updateMissionCompletion", reply |-> audit.reply,
                         completed |-> CompletedOf(audit.reply, todayMissions),
                         updates |-> <<>>, tier |-> "no_reply"]
            /\ UNCHANGED userFlowState
    /\ UNCHANGED todayMissions

\* updateMissionCompletion(missions[i].id, isCompleted) resolves or rejects;
\* after the last one the flow state is deleted and the summary is sent, a
\* rejection ends in the catch block with the flow state kept.
AuditUpdateMissionCompletion(rejects) ==
    /\ audit.pc = "updateMissionCompletion"
    /\ LET i == Len(audit.updates)
           updated == [audit EXCEPT !.updates =
                          Append(@, [mission |-> i + 1,
                                     isCompleted |-> Includes(audit.completed, i)])]
       IN  IF rejects
           THEN /\ audit' = [audit EXCEPT !.pc = "threw"]
                /\ UNCHANGED userFlowState
           ELSE IF i + 1 < todayMissions
           THEN /\ audit' = updated
                /\ UNCHANGED userFlowState
           ELSE /\ audit' = AuditSummary(updated, audit.completed, todayMissions)
                /\ userFlowState' = Undef
    /\ UNCHANGED todayMissions

(***************************************************************************)
(* Server start-up (src/src/index.js, src/src/bot.js start).  The listener *)
(* is bound by the module body before main() is called; main() then sets   *)
(* up the API store, the bot and the scheduler, each step of which can     *)
(* fail.  GET /health is answered by the listener while the process lives. *)
(***************************************************************************)
MaxHealthRequests == 3

\* What a client of GET /health gets: the handler's status, or no answer at
\* all once the process is gone.
HealthOk == "200"
NoAnswer == "none"

\* app.listen has been called, main() has not started.
Listening ==
    [pc |-> "main", alive |-> TRUE, apiDb |-> "none", bot |-> "none",
     scheduler |-> "none"]

\* process.exit(1): the process, its listener included, is gone.
processExit(st) == [st EXCEPT !.pc = "exited", !.alive = FALSE]

\* main(): the API store.  Without credentials it is skipped; a rejected
\* waitReady is caught and leaves apiDb null.
MainApiDb ==
    /\ startup.pc = "main"
    /\ \E outcome \in {"unconfigured", "ready", "failed"} :
         startup' = [startup EXCEPT !.pc = "bot", !.apiDb = outcome]
    /\ UNCHANGED healthAnswers

\* main(): new MyDayBot(...).  A throw is caught by the handler that
\* encloses the construction, the start and the scheduler.
MainBotConstruct ==
    /\ startup.pc = "bot"
    /\ \E throws \in BOOLEAN :
         startup' = IF throws
                    THEN [startup EXCEPT !.pc = "done", !.bot = "failed"]
                    ELSE [startup EXCEPT !.pc = "start", !.bot = "constructed"]
    /\ UNCHANGED healthAnswers

\* bot.start(): awaits the bot's store; when that rejects, start() itself
\* catches the error and exits the process.
MainBotStart ==
    /\ startup.pc = "start"
    /\ \E waitReady \in {"resolves", "rejects"} :
         startup' = IF waitReady = "rejects"
                    THEN processExit([startup EXCEPT !.bot = "failed"])
                    ELSE [startup EXCEPT !.pc = "scheduler", !.bot = "started"]
    /\ UNCHANGED healthAnswers

\* main(): initScheduler, reached only after bot.start() has resolved.
MainInitScheduler ==
    /\ startup.pc = "scheduler"
    /\ \E throws \in BOOLEAN :
         startup' = [startup EXCEPT !.pc = "done",
                        !.scheduler = IF throws THEN "failed" ELSE "started"]
    /\ UNCHANGED healthAnswers

\* A GET /health request made at any moment.
Health ==
    /\ Len(healthAnswers) < MaxHealthRequests
    /\ healthAnswers' =
         Append(healthAnswers, IF startup.alive THEN HealthOk ELSE NoAnswer)
    /\ UNCHANGED startup

(***************************************************************************)
(* Specifications.                                                         *)
(***************************************************************************)
NextX402 ==
    \/ (GateUnpaid /\ UNCHANGED <<auditVars, corrVars, keyVars, degradedVars, catchVars, stdioVars, mcpVars, scoreVars, creditVars, readyVars, localVars, hostVars, verifyVars, stakeVars, botVars, schedVars>>)
    \/ (GatePaid /\ UNCHANGED <<auditVars, corrVars, keyVars, degradedVars, catchVars, stdioVars, mcpVars, scoreVars, creditVars, readyVars, localVars, hostVars, verifyVars, stakeVars, botVars, schedVars>>)
    \/ (X402Verify /\ UNCHANGED <<auditVars, corrVars, keyVars, degradedVars, catchVars, stdioVars, mcpVars, scoreVars, creditVars, readyVars, localVars, hostVars, verifyVars, stakeVars, botVars, schedVars>>)
    \/ (GateDone /\ UNCHANGED <<auditVars, corrVars, keyVars, degradedVars, catchVars, stdioVars, mcpVars, scoreVars, creditVars, readyVars, localVars, hostVars, verifyVars, stakeVars, botVars, schedVars>>)

\* The gate before its first request; the other subsystems are not running.
InitX402 ==
    /\ gate = GateIdle
    /\ processed_transactions = <<>>
    /\ vault_balance = 0
    /\ vreq = <<>>
    /\ creditLog = <<>>
    /\ daily_logs = <<>>
    /\ remote_balance = 0
    /\ sreq = <<>>
    /\ stakeStore = "remote"
    /\ stakeCredits = <<>>
    /\ userFlowState = Undef
    /\ userMissionState = NoMissionState
    /\ userRow = Row(FALSE, AllColumns, FALSE, FALSE, 0, Undef)
    /\ botLogs = {}
    /\ handlers = <<>>
    /\ briefings = 0
    /\ selfProtocol = "verified_human"
    /\ attested = FALSE
    /\ now = 0
    /\ ticks = 0
    /\ lastTriggered = {}
    /\ pendingSunset = FALSE
    /\ nudges = NoNudges
    /\ startup = Listening
    /\ healthAnswers = <<>>
    /\ local_users = {KnownUser}
    /\ daily_summary = <<>>
    /\ daily_missions = <<>>
    /\ lcalls = <<>>
    /\ sqlite = Connected(FullSchema)
    /\ readyPromise = "resolved"
    /\ queries = {}
    /\ credits = NoCredits(0)
    /\ remote_logs = <<>>
    /\ scoreDay = FirstScoreDay
    /\ apiDb = "ready"
    /\ scoreAnswers = {}
    /\ mcpVault = VaultAddr
    /\ mcpExchange = NoExchange
    /\ stdioLines = <<>>
    /\ stdioPending = {}
    /\ stdout = <<>>
    /\ stderr = <<>>
    /\ chatReplies = <<>>
    /\ remoteDb = Constructed("url", "key")
    /\ remoteCalls = <<>>
    /\ keysFile = NoKeysFile
    /\ nextKeypair = 1
    /\ keyRemovals = 0
    /\ keyProcs = IdleKeyProcs
    /\ keyLog = <<>>
    /\ weeklyData = <<>>
    /\ correlation = NotAnalyzed
    /\ todayMissions = 0
    /\ audit = AuditIdle

SpecX402 == InitX402 /\ [][NextX402]_vars

NextVerify ==
    \/ (VerifyReceive /\ UNCHANGED <<auditVars, corrVars, keyVars, degradedVars, catchVars, stdioVars, mcpVars, scoreVars, creditVars, readyVars, localVars, hostVars, x402Vars, stakeVars, botVars, schedVars>>)
    \/ \E i \in 1..MaxVerifyRequests :
         /\ i <= Len(vreq)
         /\ \/ VerifyCheck(i)
            \/ VerifyRpc(i)
            \/ VerifyRecord(i)
            \/ VerifyCredit(i)
         /\ UNCHANGED <<auditVars, corrVars, keyVars, degradedVars, catchVars, stdioVars, mcpVars, scoreVars, creditVars, readyVars, localVars, hostVars, x402Vars, stakeVars, botVars, schedVars>>

\* The verifier with an empty local store.
InitVerify ==
    /\ gate = GateIdle
    /\ processed_transactions = <<>>
    /\ vault_balance = 0
    /\ vreq = <<>>
    /\ creditLog = <<>>
    /\ daily_logs = <<>>
    /\ remote_balance = 0
    /\ sreq = <<>>
    /\ stakeStore = "remote"
    /\ stakeCredits = <<>>
    /\ userFlowState = Undef
    /\ userMissionState = NoMissionState
    /\ userRow = Row(FALSE, AllColumns, FALSE, FALSE, 0, Undef)
    /\ botLogs = {}
    /\ handlers = <<>>
    /\ briefings = 0
    /\ selfProtocol = "verified_human"
    /\ attested = FALSE
    /\ now = 0
    /\ ticks = 0
    /\ lastTriggered = {}
    /\ pendingSunset = FALSE
    /\ nudges = NoNudges
    /\ startup = Listening
    /\ healthAnswers = <<>>
    /\ local_users = {KnownUser}
    /\ daily_summary = <<>>
    /\ daily_missions = <<>>
    /\ lcalls = <<>>
    /\ sqlite = Connected(FullSchema)
    /\ readyPromise = "resolved"
    /\ queries = {}
    /\ credits = NoCredits(0)
    /\ remote_logs = <<>>
    /\ scoreDay = FirstScoreDay
    /\ apiDb = "ready"
    /\ scoreAnswers = {}
    /\ mcpVault = VaultAddr
    /\ mcpExchange = NoExchange
    /\ stdioLines = <<>>
    /\ stdioPending = {}
    /\ stdout = <<>>
    /\ stderr = <<>>
    /\ chatReplies = <<>>
    /\ remoteDb = Constructed("url", "key")
    /\ remoteCalls = <<>>
    /\ keysFile = NoKeysFile
    /\ nextKeypair = 1
    /\ keyRemovals = 0
    /\ keyProcs = IdleKeyProcs
    /\ keyLog = <<>>
    /\ weeklyData = <<>>
    /\ correlation = NotAnalyzed
    /\ todayMissions = 0
    /\ audit = AuditIdle

SpecVerify == InitVerify /\ [][NextVerify]_vars

NextStake ==
    \/ (StakeReceive /\ UNCHANGED <<auditVars, corrVars, keyVars, degradedVars, catchVars, stdioVars, mcpVars, scoreVars, creditVars, readyVars, localVars, hostVars, x402Vars, verifyVars, botVars, schedVars>>)
    \/ \E i \in 1..MaxStakeRequests :
         /\ i <= Len(sreq)
         /\ \/ StakeVerifyPayment(i)
            \/ StakeRecord(i)
            \/ StakeCreditRead(i)
            \/ StakeCreditWrite(i)
         /\ UNCHANGED <<auditVars, corrVars, keyVars, degradedVars, catchVars, stdioVars, mcpVars, scoreVars, creditVars, readyVars, localVars, hostVars, x402Vars, verifyVars, botVars, schedVars>>

\* The gateway with SUPABASE_URL and SUPABASE_SERVICE_KEY set, or not.
InitStake ==
    /\ gate = GateIdle
    /\ processed_transactions = <<>>
    /\ vault_balance = 0
    /\ vreq = <<>>
    /\ creditLog = <<>>
    /\ daily_logs = <<>>
    /\ remote_balance = 0
    /\ sreq = <<>>
    /\ stakeStore \in {"remote", "none"}
    /\ stakeCredits = <<>>
    /\ userFlowState = Undef
    /\ userMissionState = NoMissionState
    /\ userRow = Row(FALSE, AllColumns, FALSE, FALSE, 0, Undef)
    /\ botLogs = {}
    /\ handlers = <<>>
    /\ briefings = 0
    /\ selfProtocol = "verified_human"
    /\ attested = FALSE
    /\ now = 0
    /\ ticks = 0
    /\ lastTriggered = {}
    /\ pendingSunset = FALSE
    /\ nudges = NoNudges
    /\ startup = Listening
    /\ healthAnswers = <<>>
    /\ local_users = {KnownUser}
    /\ daily_summary = <<>>
    /\ daily_missions = <<>>
    /\ lcalls = <<>>
    /\ sqlite = Connected(FullSchema)
    /\ readyPromise = "resolved"
    /\ queries = {}
    /\ credits = NoCredits(0)
    /\ remote_logs = <<>>
    /\ scoreDay = FirstScoreDay
    /\ apiDb = "ready"
    /\ scoreAnswers = {}
    /\ mcpVault = VaultAddr
    /\ mcpExchange = NoExchange
    /\ stdioLines = <<>>
    /\ stdioPending = {}
    /\ stdout = <<>>
    /\ stderr = <<>>
    /\ chatReplies = <<>>
    /\ remoteDb = Constructed("url", "key")
    /\ remoteCalls = <<>>
    /\ keysFile = NoKeysFile
    /\ nextKeypair = 1
    /\ keyRemovals = 0
    /\ keyProcs = IdleKeyProcs
    /\ keyLog = <<>>
    /\ weeklyData = <<>>
    /\ correlation = NotAnalyzed
    /\ todayMissions = 0
    /\ audit = AuditIdle

SpecStake == InitStake /\ [][NextStake]_vars

\* The bot over the remote store, with the payments that credit the vault.
NextBot ==
    \/ (\E text \in Texts : BotMessage(text)) /\ UNCHANGED <<auditVars, corrVars, keyVars, degradedVars, catchVars, stdioVars, mcpVars, scoreVars, creditVars, readyVars, localVars, hostVars, x402Vars, verifyVars, stakeVars, schedVars>>
    \/ BotStart /\ UNCHANGED <<auditVars, corrVars, keyVars, degradedVars, catchVars, stdioVars, mcpVars, scoreVars, creditVars, readyVars, localVars, hostVars, x402Vars, verifyVars, stakeVars, schedVars>>
    \/ (\E tz \in {"Asia/Kolkata"} : BotSetTimezone(tz))
       /\ UNCHANGED <<auditVars, corrVars, keyVars, degradedVars, catchVars, stdioVars, mcpVars, scoreVars, creditVars, readyVars, localVars, hostVars, x402Vars, verifyVars, stakeVars, schedVars>>
    \/ VaultCredited /\ UNCHANGED <<auditVars, corrVars, keyVars, degradedVars, catchVars, stdioVars, mcpVars, scoreVars, creditVars, readyVars, localVars, hostVars, x402Vars, verifyVars, stakeVars, schedVars>>
    \/ (\E body \in WebhookBodies : VerifyWebhook(body))
       /\ UNCHANGED <<auditVars, corrVars, keyVars, degradedVars, catchVars, stdioVars, mcpVars, scoreVars, creditVars, readyVars, localVars, hostVars, x402Vars, verifyVars, stakeVars, schedVars>>
    \/ \E k \in 1..MaxHandlers :
         /\ \/ ConfirmIsVerified(k)
            \/ ConfirmSaveMissions(k)
            \/ ConfirmSaveDailySummary(k)
            \/ ConfirmFinish(k)
         /\ UNCHANGED <<auditVars, corrVars, keyVars, degradedVars, catchVars, stdioVars, mcpVars, scoreVars, creditVars, readyVars, localVars, hostVars, x402Vars, verifyVars, stakeVars, schedVars>>

\* The bot after construction, over any of the users rows and either
\* revision of isVerified.
InitBot ==
    /\ gate = GateIdle
    /\ processed_transactions = <<>>
    /\ vault_balance = 0
    /\ vreq = <<>>
    /\ creditLog = <<>>
    /\ daily_logs = <<>>
    /\ remote_balance = 0
    /\ sreq = <<>>
    /\ stakeStore = "remote"
    /\ stakeCredits = <<>>
    /\ userFlowState = Undef
    /\ userMissionState = NoMissionState
    /\ userRow \in UserRows
    /\ botLogs = {}
    /\ handlers = <<>>
    /\ briefings = 0
    /\ selfProtocol \in {"verified_human", "verified"}
    /\ attested = FALSE
    /\ now = 0
    /\ ticks = 0
    /\ lastTriggered = {}
    /\ pendingSunset = FALSE
    /\ nudges = NoNudges
    /\ startup = Listening
    /\ healthAnswers = <<>>
    /\ local_users = {KnownUser}
    /\ daily_summary = <<>>
    /\ daily_missions = <<>>
    /\ lcalls = <<>>
    /\ sqlite = Connected(FullSchema)
    /\ readyPromise = "resolved"
    /\ queries = {}
    /\ credits = NoCredits(0)
    /\ remote_logs = <<>>
    /\ scoreDay = FirstScoreDay
    /\ apiDb = "ready"
    /\ scoreAnswers = {}
    /\ mcpVault = VaultAddr
    /\ mcpExchange = NoExchange
    /\ stdioLines = <<>>
    /\ stdioPending = {}
    /\ stdout = <<>>
    /\ stderr = <<>>
    /\ chatReplies = <<>>
    /\ remoteDb = Constructed("url", "key")
    /\ remoteCalls = <<>>
    /\ keysFile = NoKeysFile
    /\ nextKeypair = 1
    /\ keyRemovals = 0
    /\ keyProcs = IdleKeyProcs
    /\ keyLog = <<>>
    /\ weeklyData = <<>>
    /\ correlation = NotAnalyzed
    /\ todayMissions = 0
    /\ audit = AuditIdle

SpecBot == InitBot /\ [][NextBot]_vars

\* The scheduler and the bot it drives.
SchedRows ==
    {Row(TRUE, AllColumns, TRUE, FALSE, 0, tz) : tz \in {Undef, "Asia/Dhaka", InvalidZone}}

SchedTexts == {TextThree, TextZero, TextNo}

NextSched ==
    \/ Tick /\ UNCHANGED <<auditVars, corrVars, keyVars, degradedVars, catchVars, stdioVars, mcpVars, scoreVars, creditVars, readyVars, localVars, hostVars, x402Vars, verifyVars, stakeVars>>
    \/ (\E k \in 1..MaxHandlers : SunsetFinish(k))
       /\ UNCHANGED <<auditVars, corrVars, keyVars, degradedVars, catchVars, stdioVars, mcpVars, scoreVars, creditVars, readyVars, localVars, hostVars, x402Vars, verifyVars, stakeVars, schedVars>>
    \/ (\E text \in SchedTexts : BotMessage(text))
       /\ UNCHANGED <<auditVars, corrVars, keyVars, degradedVars, catchVars, stdioVars, mcpVars, scoreVars, creditVars, readyVars, localVars, hostVars, x402Vars, verifyVars, stakeVars, schedVars>>
    \/ BotStart /\ UNCHANGED <<auditVars, corrVars, keyVars, degradedVars, catchVars, stdioVars, mcpVars, scoreVars, creditVars, readyVars, localVars, hostVars, x402Vars, verifyVars, stakeVars, schedVars>>
    \/ (\E tz \in {"Asia/Kolkata", "Asia/Dhaka"} : BotSetTimezone(tz))
       /\ UNCHANGED <<auditVars, corrVars, keyVars, degradedVars, catchVars, stdioVars, mcpVars, scoreVars, creditVars, readyVars, localVars, hostVars, x402Vars, verifyVars, stakeVars, schedVars>>

\* The scheduler after initScheduler, at the start of a window, and the bot.
InitSched ==
    /\ gate = GateIdle
    /\ processed_transactions = <<>>
    /\ vault_balance = 0
    /\ vreq = <<>>
    /\ creditLog = <<>>
    /\ daily_logs = <<>>
    /\ remote_balance = 0
    /\ sreq = <<>>
    /\ stakeStore = "remote"
    /\ stakeCredits = <<>>
    /\ userFlowState = Undef
    /\ userMissionState = NoMissionState
    /\ userRow \in SchedRows
    /\ botLogs = {}
    /\ handlers = <<>>
    /\ briefings = 0
    /\ selfProtocol = "verified_human"
    /\ attested = FALSE
    /\ now \in WindowStarts
    /\ ticks = 0
    /\ lastTriggered = {}
    /\ pendingSunset = FALSE
    /\ nudges = NoNudges
    /\ startup = Listening
    /\ healthAnswers = <<>>
    /\ local_users = {KnownUser}
    /\ daily_summary = <<>>
    /\ daily_missions = <<>>
    /\ lcalls = <<>>
    /\ sqlite = Connected(FullSchema)
    /\ readyPromise = "resolved"
    /\ queries = {}
    /\ credits = NoCredits(0)
    /\ remote_logs = <<>>
    /\ scoreDay = FirstScoreDay
    /\ apiDb = "ready"
    /\ scoreAnswers = {}
    /\ mcpVault = VaultAddr
    /\ mcpExchange = NoExchange
    /\ stdioLines = <<>>
    /\ stdioPending = {}
    /\ stdout = <<>>
    /\ stderr = <<>>
    /\ chatReplies = <<>>
    /\ remoteDb = Constructed("url", "key")
    /\ remoteCalls = <<>>
    /\ keysFile = NoKeysFile
    /\ nextKeypair = 1
    /\ keyRemovals = 0
    /\ keyProcs = IdleKeyProcs
    /\ keyLog = <<>>
    /\ weeklyData = <<>>
    /\ correlation = NotAnalyzed
    /\ todayMissions = 0
    /\ audit = AuditIdle

SpecSched == InitSched /\ [][NextSched]_vars

NextStartup ==
    \/ MainApiDb /\ UNCHANGED <<auditVars, corrVars, keyVars, degradedVars, catchVars, stdioVars, mcpVars, scoreVars, creditVars, readyVars, localVars, x402Vars, verifyVars, stakeVars, botVars, schedVars>>
    \/ MainBotConstruct /\ UNCHANGED <<auditVars, corrVars, keyVars, degradedVars, catchVars, stdioVars, mcpVars, scoreVars, creditVars, readyVars, localVars, x402Vars, verifyVars, stakeVars, botVars, schedVars>>
    \/ MainBotStart /\ UNCHANGED <<auditVars, corrVars, keyVars, degradedVars, catchVars, stdioVars, mcpVars, scoreVars, creditVars, readyVars, localVars, x402Vars, verifyVars, stakeVars, botVars, schedVars>>
    \/ MainInitScheduler /\ UNCHANGED <<auditVars, corrVars, keyVars, degradedVars, catchVars, stdioVars, mcpVars, scoreVars, creditVars, readyVars, localVars, x402Vars, verifyVars, stakeVars, botVars, schedVars>>
    \/ Health /\ UNCHANGED <<auditVars, corrVars, keyVars, degradedVars, catchVars, stdioVars, mcpVars, scoreVars, creditVars, readyVars, localVars, x402Vars, verifyVars, stakeVars, botVars, schedVars>>

\* The process after its module body has run: the listener is bound and
\* main() is about to start.
InitStartup ==
    /\ gate = GateIdle
    /\ processed_transactions = <<>>
    /\ vault_balance = 0
    /\ vreq = <<>>
    /\ creditLog = <<>>
    /\ daily_logs = <<>>
    /\ remote_balance = 0
    /\ sreq = <<>>
    /\ stakeStore = "remote"
    /\ stakeCredits = <<>>
    /\ userFlowState = Undef
    /\ userMissionState = NoMissionState
    /\ userRow = Row(FALSE, AllColumns, FALSE, FALSE, 0, Undef)
    /\ botLogs = {}
    /\ handlers = <<>>
    /\ briefings = 0
    /\ selfProtocol = "verified_human"
    /\ attested = FALSE
    /\ now = 0
    /\ ticks = 0
    /\ lastTriggered = {}
    /\ pendingSunset = FALSE
    /\ nudges = NoNudges
    /\ startup = Listening
    /\ healthAnswers = <<>>
    /\ local_users = {KnownUser}
    /\ daily_summary = <<>>
    /\ daily_missions = <<>>
    /\ lcalls = <<>>
    /\ sqlite = Connected(FullSchema)
    /\ readyPromise = "resolved"
    /\ queries = {}
    /\ credits = NoCredits(0)
    /\ remote_logs = <<>>
    /\ scoreDay = FirstScoreDay
    /\ apiDb = "ready"
    /\ scoreAnswers = {}
    /\ mcpVault = VaultAddr
    /\ mcpExchange = NoExchange
    /\ stdioLines = <<>>
    /\ stdioPending = {}
    /\ stdout = <<>>
    /\ stderr = <<>>
    /\ chatReplies = <<>>
    /\ remoteDb = Constructed("url", "key")
    /\ remoteCalls = <<>>
    /\ keysFile = NoKeysFile
    /\ nextKeypair = 1
    /\ keyRemovals = 0
    /\ keyProcs = IdleKeyProcs
    /\ keyLog = <<>>
    /\ weeklyData = <<>>
    /\ correlation = NotAnalyzed
    /\ todayMissions = 0
    /\ audit = AuditIdle

SpecStartup == InitStartup /\ [][NextStartup]_vars

NextLocal ==
    \/ (\E energy \in MorningEnergies, count \in {1, 3} :
            SaveDailySummary(KnownUser, energy, count))
       /\ UNCHANGED <<auditVars, corrVars, keyVars, degradedVars, catchVars, stdioVars, mcpVars, scoreVars, creditVars, readyVars, hostVars, x402Vars, verifyVars, stakeVars, botVars, schedVars>>
    \/ (\E user \in LocalUsers : RecordVerificationAttempt(user))
       /\ UNCHANGED <<auditVars, corrVars, keyVars, degradedVars, catchVars, stdioVars, mcpVars, scoreVars, creditVars, readyVars, hostVars, x402Vars, verifyVars, stakeVars, botVars, schedVars>>
    \/ (\E k \in 1..MaxLocalCalls : RecordVerificationAttemptSelect(k))
       /\ UNCHANGED <<auditVars, corrVars, keyVars, degradedVars, catchVars, stdioVars, mcpVars, scoreVars, creditVars, readyVars, hostVars, x402Vars, verifyVars, stakeVars, botVars, schedVars>>
    \/ (\E k \in 1..MaxLocalCalls : RecordVerificationAttemptInsert(k))
       /\ UNCHANGED <<auditVars, corrVars, keyVars, degradedVars, catchVars, stdioVars, mcpVars, scoreVars, creditVars, readyVars, hostVars, x402Vars, verifyVars, stakeVars, botVars, schedVars>>
    \/ (\E input \in MoodInputs : UpdateSunsetMood(KnownUser, input, 1))
       /\ UNCHANGED <<auditVars, corrVars, keyVars, degradedVars, catchVars, stdioVars, mcpVars, scoreVars, creditVars, readyVars, hostVars, x402Vars, verifyVars, stakeVars, botVars, schedVars>>
    \/ (\E k \in 1..MaxLocalCalls : UpdateSunsetMoodSelect(k))
       /\ UNCHANGED <<auditVars, corrVars, keyVars, degradedVars, catchVars, stdioVars, mcpVars, scoreVars, creditVars, readyVars, hostVars, x402Vars, verifyVars, stakeVars, botVars, schedVars>>
    \/ (\E k \in 1..MaxLocalCalls : UpdateSunsetMoodUpdate(k))
       /\ UNCHANGED <<auditVars, corrVars, keyVars, degradedVars, catchVars, stdioVars, mcpVars, scoreVars, creditVars, readyVars, hostVars, x402Vars, verifyVars, stakeVars, botVars, schedVars>>
    \/ (\E missions \in MissionLists : SaveMissions(KnownUser, missions))
       /\ UNCHANGED <<auditVars, corrVars, keyVars, degradedVars, catchVars, stdioVars, mcpVars, scoreVars, creditVars, readyVars, hostVars, x402Vars, verifyVars, stakeVars, botVars, schedVars>>
    \/ (\E k \in 1..MaxLocalCalls : SaveMissionsInsert(k))
       /\ UNCHANGED <<auditVars, corrVars, keyVars, degradedVars, catchVars, stdioVars, mcpVars, scoreVars, creditVars, readyVars, hostVars, x402Vars, verifyVars, stakeVars, botVars, schedVars>>

\* The local store after waitReady, with the row of a user who has sent
\* /start and empty daily tables.
InitLocal ==
    /\ gate = GateIdle
    /\ processed_transactions = <<>>
    /\ vault_balance = 0
    /\ vreq = <<>>
    /\ creditLog = <<>>
    /\ daily_logs = <<>>
    /\ remote_balance = 0
    /\ sreq = <<>>
    /\ stakeStore = "remote"
    /\ stakeCredits = <<>>
    /\ userFlowState = Undef
    /\ userMissionState = NoMissionState
    /\ userRow = Row(FALSE, AllColumns, FALSE, FALSE, 0, Undef)
    /\ botLogs = {}
    /\ handlers = <<>>
    /\ briefings = 0
    /\ selfProtocol = "verified_human"
    /\ attested = FALSE
    /\ now = 0
    /\ ticks = 0
    /\ lastTriggered = {}
    /\ pendingSunset = FALSE
    /\ nudges = NoNudges
    /\ startup = Listening
    /\ healthAnswers = <<>>
    /\ local_users = {KnownUser}
    /\ daily_summary = <<>>
    /\ daily_missions = <<>>
    /\ lcalls = <<>>
    /\ sqlite = Connected(FullSchema)
    /\ readyPromise = "resolved"
    /\ queries = {}
    /\ credits = NoCredits(0)
    /\ remote_logs = <<>>
    /\ scoreDay = FirstScoreDay
    /\ apiDb = "ready"
    /\ scoreAnswers = {}
    /\ mcpVault = VaultAddr
    /\ mcpExchange = NoExchange
    /\ stdioLines = <<>>
    /\ stdioPending = {}
    /\ stdout = <<>>
    /\ stderr = <<>>
    /\ chatReplies = <<>>
    /\ remoteDb = Constructed("url", "key")
    /\ remoteCalls = <<>>
    /\ keysFile = NoKeysFile
    /\ nextKeypair = 1
    /\ keyRemovals = 0
    /\ keyProcs = IdleKeyProcs
    /\ keyLog = <<>>
    /\ weeklyData = <<>>
    /\ correlation = NotAnalyzed
    /\ todayMissions = 0
    /\ audit = AuditIdle

SpecLocal == InitLocal /\ [][NextLocal]_vars

NextReady ==
    \/ SqliteOpen
       /\ UNCHANGED <<auditVars, corrVars, keyVars, degradedVars, catchVars, stdioVars, mcpVars, scoreVars, creditVars, localVars, hostVars, x402Vars, verifyVars, stakeVars, botVars, schedVars>>
    \/ (\E method \in PublicMethods, awaited \in BOOLEAN : CallerQuery(method, awaited))
       /\ UNCHANGED <<auditVars, corrVars, keyVars, degradedVars, catchVars, stdioVars, mcpVars, scoreVars, creditVars, localVars, hostVars, x402Vars, verifyVars, stakeVars, botVars, schedVars>>
    \/ (\E st \in sqlite.pending : StatementRuns(st))
       /\ UNCHANGED <<auditVars, corrVars, keyVars, degradedVars, catchVars, stdioVars, mcpVars, scoreVars, creditVars, localVars, hostVars, x402Vars, verifyVars, stakeVars, botVars, schedVars>>

\* The local store just constructed, over a new database file, a file of
\* the schema before the migrations, or a file that has every column.
InitReady ==
    /\ gate = GateIdle
    /\ processed_transactions = <<>>
    /\ vault_balance = 0
    /\ vreq = <<>>
    /\ creditLog = <<>>
    /\ daily_logs = <<>>
    /\ remote_balance = 0
    /\ sreq = <<>>
    /\ stakeStore = "remote"
    /\ stakeCredits = <<>>
    /\ userFlowState = Undef
    /\ userMissionState = NoMissionState
    /\ userRow = Row(FALSE, AllColumns, FALSE, FALSE, 0, Undef)
    /\ botLogs = {}
    /\ handlers = <<>>
    /\ briefings = 0
    /\ selfProtocol = "verified_human"
    /\ attested = FALSE
    /\ now = 0
    /\ ticks = 0
    /\ lastTriggered = {}
    /\ pendingSunset = FALSE
    /\ nudges = NoNudges
    /\ startup = Listening
    /\ healthAnswers = <<>>
    /\ local_users = {KnownUser}
    /\ daily_summary = <<>>
    /\ daily_missions = <<>>
    /\ lcalls = <<>>
    /\ sqlite \in {Connecting(FreshSchema), Connecting(OldSchema), Connecting(FullSchema)}
    /\ readyPromise = "pending"
    /\ queries = {}
    /\ credits = NoCredits(0)
    /\ remote_logs = <<>>
    /\ scoreDay = FirstScoreDay
    /\ apiDb = "ready"
    /\ scoreAnswers = {}
    /\ mcpVault = VaultAddr
    /\ mcpExchange = NoExchange
    /\ stdioLines = <<>>
    /\ stdioPending = {}
    /\ stdout = <<>>
    /\ stderr = <<>>
    /\ chatReplies = <<>>
    /\ remoteDb = Constructed("url", "key")
    /\ remoteCalls = <<>>
    /\ keysFile = NoKeysFile
    /\ nextKeypair = 1
    /\ keyRemovals = 0
    /\ keyProcs = IdleKeyProcs
    /\ keyLog = <<>>
    /\ weeklyData = <<>>
    /\ correlation = NotAnalyzed
    /\ todayMissions = 0
    /\ audit = AuditIdle

SpecReady == InitReady /\ [][NextReady]_vars

NextCredit ==
    \/ (\E amount \in CreditAmounts : LocalCreditUserVault(amount))
       /\ UNCHANGED <<processed_transactions, vreq, creditLog, daily_logs, sreq, stakeStore,
                      stakeCredits, auditVars, corrVars, keyVars, degradedVars, catchVars, stdioVars, mcpVars, scoreVars, readyVars, localVars, hostVars, x402Vars, botVars,
                      schedVars>>
    \/ (\E amount \in CreditAmounts : RemoteCreditUserVault(amount))
       /\ UNCHANGED <<processed_transactions, vreq, creditLog, daily_logs, sreq, stakeStore,
                      stakeCredits, auditVars, corrVars, keyVars, degradedVars, catchVars, stdioVars, mcpVars, scoreVars, readyVars, localVars, hostVars, x402Vars, botVars,
                      schedVars>>
    \/ (\E k \in 1..MaxCredits : RemoteCreditSelect(k))
       /\ UNCHANGED <<processed_transactions, vreq, creditLog, daily_logs, sreq, stakeStore,
                      stakeCredits, auditVars, corrVars, keyVars, degradedVars, catchVars, stdioVars, mcpVars, scoreVars, readyVars, localVars, hostVars, x402Vars, botVars,
                      schedVars>>
    \/ (\E k \in 1..MaxCredits : RemoteCreditUpdate(k))
       /\ UNCHANGED <<processed_transactions, vreq, creditLog, daily_logs, sreq, stakeStore,
                      stakeCredits, auditVars, corrVars, keyVars, degradedVars, catchVars, stdioVars, mcpVars, scoreVars, readyVars, localVars, hostVars, x402Vars, botVars,
                      schedVars>>

\* Both stores hold the user's row with the same balance; no call yet.
InitCredit ==
    /\ credits \in {NoCredits(base) : base \in InitialBalances}
    /\ gate = GateIdle
    /\ processed_transactions = <<>>
    /\ vault_balance = credits.base
    /\ vreq = <<>>
    /\ creditLog = <<>>
    /\ daily_logs = <<>>
    /\ remote_balance = credits.base
    /\ sreq = <<>>
    /\ stakeStore = "remote"
    /\ stakeCredits = <<>>
    /\ userFlowState = Undef
    /\ userMissionState = NoMissionState
    /\ userRow = Row(FALSE, AllColumns, FALSE, FALSE, 0, Undef)
    /\ botLogs = {}
    /\ handlers = <<>>
    /\ briefings = 0
    /\ selfProtocol = "verified_human"
    /\ attested = FALSE
    /\ now = 0
    /\ ticks = 0
    /\ lastTriggered = {}
    /\ pendingSunset = FALSE
    /\ nudges = NoNudges
    /\ startup = Listening
    /\ healthAnswers = <<>>
    /\ local_users = {KnownUser}
    /\ daily_summary = <<>>
    /\ daily_missions = <<>>
    /\ lcalls = <<>>
    /\ sqlite = Connected(FullSchema)
    /\ readyPromise = "resolved"
    /\ queries = {}
    /\ remote_logs = <<>>
    /\ scoreDay = FirstScoreDay
    /\ apiDb = "ready"
    /\ scoreAnswers = {}
    /\ mcpVault = VaultAddr
    /\ mcpExchange = NoExchange
    /\ stdioLines = <<>>
    /\ stdioPending = {}
    /\ stdout = <<>>
    /\ stderr = <<>>
    /\ chatReplies = <<>>
    /\ remoteDb = Constructed("url", "key")
    /\ remoteCalls = <<>>
    /\ keysFile = NoKeysFile
    /\ nextKeypair = 1
    /\ keyRemovals = 0
    /\ keyProcs = IdleKeyProcs
    /\ keyLog = <<>>
    /\ weeklyData = <<>>
    /\ correlation = NotAnalyzed
    /\ todayMissions = 0
    /\ audit = AuditIdle

SpecCredit == InitCredit /\ [][NextCredit]_vars

NextScore ==
    \/ (\E u \in ScoreUsers, s \in StakedAmounts : RemoteSaveMissions(u, 3, s))
       /\ UNCHANGED <<auditVars, corrVars, keyVars, degradedVars, catchVars, stdioVars, mcpVars, creditVars, readyVars, localVars, hostVars, x402Vars, verifyVars,
                      stakeVars, botVars, schedVars>>
    \/ (\E u \in ScoreUsers, e \in ScoreEnergies : RemoteSaveDailySummary(u, e, 0))
       /\ UNCHANGED <<auditVars, corrVars, keyVars, degradedVars, catchVars, stdioVars, mcpVars, creditVars, readyVars, localVars, hostVars, x402Vars, verifyVars,
                      stakeVars, botVars, schedVars>>
    \/ (\E u \in ScoreUsers, w \in WinsCounts : RemoteUpdateSunsetMood(u, 4, w))
       /\ UNCHANGED <<auditVars, corrVars, keyVars, degradedVars, catchVars, stdioVars, mcpVars, creditVars, readyVars, localVars, hostVars, x402Vars, verifyVars,
                      stakeVars, botVars, schedVars>>
    \/ ScoreDayPasses
       /\ UNCHANGED <<auditVars, corrVars, keyVars, degradedVars, catchVars, stdioVars, mcpVars, creditVars, readyVars, localVars, hostVars, x402Vars, verifyVars,
                      stakeVars, botVars, schedVars>>
    \/ (\E id \in ScoreIds : HttpDisciplineScore(id))
       /\ UNCHANGED <<auditVars, corrVars, keyVars, degradedVars, catchVars, stdioVars, mcpVars, creditVars, readyVars, localVars, hostVars, x402Vars, verifyVars,
                      stakeVars, botVars, schedVars>>
    \/ (\E id \in ScoreIds : McpGetDisciplineScore(id))
       /\ UNCHANGED <<auditVars, corrVars, keyVars, degradedVars, catchVars, stdioVars, mcpVars, creditVars, readyVars, localVars, hostVars, x402Vars, verifyVars,
                      stakeVars, botVars, schedVars>>
    \/ (\E id \in ScoreIds : ApiDisciplineScore(id))
       /\ UNCHANGED <<auditVars, corrVars, keyVars, degradedVars, catchVars, stdioVars, mcpVars, creditVars, readyVars, localVars, hostVars, x402Vars, verifyVars,
                      stakeVars, botVars, schedVars>>

\* The store is empty or holds the older rows; it is configured or not.
InitScore ==
    /\ remote_logs \in {<<>>, LegacyLogs}
    /\ scoreDay = FirstScoreDay
    /\ apiDb \in {"ready", "null"}
    /\ scoreAnswers = {}
    /\ gate = GateIdle
    /\ processed_transactions = <<>>
    /\ vault_balance = 0
    /\ vreq = <<>>
    /\ creditLog = <<>>
    /\ daily_logs = <<>>
    /\ remote_balance = 0
    /\ sreq = <<>>
    /\ stakeStore = "remote"
    /\ stakeCredits = <<>>
    /\ userFlowState = Undef
    /\ userMissionState = NoMissionState
    /\ userRow = Row(FALSE, AllColumns, FALSE, FALSE, 0, Undef)
    /\ botLogs = {}
    /\ handlers = <<>>
    /\ briefings = 0
    /\ selfProtocol = "verified_human"
    /\ attested = FALSE
    /\ now = 0
    /\ ticks = 0
    /\ lastTriggered = {}
    /\ pendingSunset = FALSE
    /\ nudges = NoNudges
    /\ startup = Listening
    /\ healthAnswers = <<>>
    /\ local_users = {KnownUser}
    /\ daily_summary = <<>>
    /\ daily_missions = <<>>
    /\ lcalls = <<>>
    /\ sqlite = Connected(FullSchema)
    /\ readyPromise = "resolved"
    /\ queries = {}
    /\ credits = NoCredits(0)
    /\ mcpVault = VaultAddr
    /\ mcpExchange = NoExchange
    /\ stdioLines = <<>>
    /\ stdioPending = {}
    /\ stdout = <<>>
    /\ stderr = <<>>
    /\ chatReplies = <<>>
    /\ remoteDb = Constructed("url", "key")
    /\ remoteCalls = <<>>
    /\ keysFile = NoKeysFile
    /\ nextKeypair = 1
    /\ keyRemovals = 0
    /\ keyProcs = IdleKeyProcs
    /\ keyLog = <<>>
    /\ weeklyData = <<>>
    /\ correlation = NotAnalyzed
    /\ todayMissions = 0
    /\ audit = AuditIdle

SpecScore == InitScore /\ [][NextScore]_vars

NextMcp ==
    \/ McpPostSingle
       /\ UNCHANGED <<auditVars, corrVars, keyVars, degradedVars, catchVars, stdioVars, scoreVars, creditVars, readyVars, localVars, hostVars, x402Vars,
                      verifyVars, stakeVars, botVars, schedVars>>
    \/ McpPostBatch
       /\ UNCHANGED <<auditVars, corrVars, keyVars, degradedVars, catchVars, stdioVars, scoreVars, creditVars, readyVars, localVars, hostVars, x402Vars,
                      verifyVars, stakeVars, botVars, schedVars>>
    \/ McpSent
       /\ UNCHANGED <<auditVars, corrVars, keyVars, degradedVars, catchVars, stdioVars, scoreVars, creditVars, readyVars, localVars, hostVars, x402Vars,
                      verifyVars, stakeVars, botVars, schedVars>>

\* The server is up, with or without VAULT_ADDRESS; no request yet.
InitMcp ==
    /\ mcpVault \in {"", VaultAddr}
    /\ mcpExchange = NoExchange
    /\ gate = GateIdle
    /\ processed_transactions = <<>>
    /\ vault_balance = 0
    /\ vreq = <<>>
    /\ creditLog = <<>>
    /\ daily_logs = <<>>
    /\ remote_balance = 0
    /\ sreq = <<>>
    /\ stakeStore = "remote"
    /\ stakeCredits = <<>>
    /\ userFlowState = Undef
    /\ userMissionState = NoMissionState
    /\ userRow = Row(FALSE, AllColumns, FALSE, FALSE, 0, Undef)
    /\ botLogs = {}
    /\ handlers = <<>>
    /\ briefings = 0
    /\ selfProtocol = "verified_human"
    /\ attested = FALSE
    /\ now = 0
    /\ ticks = 0
    /\ lastTriggered = {}
    /\ pendingSunset = FALSE
    /\ nudges = NoNudges
    /\ startup = Listening
    /\ healthAnswers = <<>>
    /\ local_users = {KnownUser}
    /\ daily_summary = <<>>
    /\ daily_missions = <<>>
    /\ lcalls = <<>>
    /\ sqlite = Connected(FullSchema)
    /\ readyPromise = "resolved"
    /\ queries = {}
    /\ credits = NoCredits(0)
    /\ remote_logs = <<>>
    /\ scoreDay = FirstScoreDay
    /\ apiDb = "ready"
    /\ scoreAnswers = {}
    /\ stdioLines = <<>>
    /\ stdioPending = {}
    /\ stdout = <<>>
    /\ stderr = <<>>
    /\ chatReplies = <<>>
    /\ remoteDb = Constructed("url", "key")
    /\ remoteCalls = <<>>
    /\ keysFile = NoKeysFile
    /\ nextKeypair = 1
    /\ keyRemovals = 0
    /\ keyProcs = IdleKeyProcs
    /\ keyLog = <<>>
    /\ weeklyData = <<>>
    /\ correlation = NotAnalyzed
    /\ todayMissions = 0
    /\ audit = AuditIdle

SpecMcp == InitMcp /\ [][NextMcp]_vars

NextStdio ==
    \/ (\E line \in StdinLines : StdioLine(line))
       /\ UNCHANGED <<auditVars, corrVars, keyVars, degradedVars, catchVars, mcpVars, scoreVars, creditVars, readyVars, localVars, hostVars, x402Vars,
                      verifyVars, stakeVars, botVars, schedVars>>
    \/ (\E i \in 1..MaxStdinLines, outcome \in {"result", "error"} : StdioToolDone(i, outcome))
       /\ UNCHANGED <<auditVars, corrVars, keyVars, degradedVars, catchVars, mcpVars, scoreVars, creditVars, readyVars, localVars, hostVars, x402Vars,
                      verifyVars, stakeVars, botVars, schedVars>>

\* The process has started and has read nothing.
InitStdio ==
    /\ stdioLines = <<>>
    /\ stdioPending = {}
    /\ stdout = <<>>
    /\ stderr = <<>>
    /\ gate = GateIdle
    /\ processed_transactions = <<>>
    /\ vault_balance = 0
    /\ vreq = <<>>
    /\ creditLog = <<>>
    /\ daily_logs = <<>>
    /\ remote_balance = 0
    /\ sreq = <<>>
    /\ stakeStore = "remote"
    /\ stakeCredits = <<>>
    /\ userFlowState = Undef
    /\ userMissionState = NoMissionState
    /\ userRow = Row(FALSE, AllColumns, FALSE, FALSE, 0, Undef)
    /\ botLogs = {}
    /\ handlers = <<>>
    /\ briefings = 0
    /\ selfProtocol = "verified_human"
    /\ attested = FALSE
    /\ now = 0
    /\ ticks = 0
    /\ lastTriggered = {}
    /\ pendingSunset = FALSE
    /\ nudges = NoNudges
    /\ startup = Listening
    /\ healthAnswers = <<>>
    /\ local_users = {KnownUser}
    /\ daily_summary = <<>>
    /\ daily_missions = <<>>
    /\ lcalls = <<>>
    /\ sqlite = Connected(FullSchema)
    /\ readyPromise = "resolved"
    /\ queries = {}
    /\ credits = NoCredits(0)
    /\ remote_logs = <<>>
    /\ scoreDay = FirstScoreDay
    /\ apiDb = "ready"
    /\ scoreAnswers = {}
    /\ mcpVault = VaultAddr
    /\ mcpExchange = NoExchange
    /\ chatReplies = <<>>
    /\ remoteDb = Constructed("url", "key")
    /\ remoteCalls = <<>>
    /\ keysFile = NoKeysFile
    /\ nextKeypair = 1
    /\ keyRemovals = 0
    /\ keyProcs = IdleKeyProcs
    /\ keyLog = <<>>
    /\ weeklyData = <<>>
    /\ correlation = NotAnalyzed
    /\ todayMissions = 0
    /\ audit = AuditIdle

SpecStdio == InitStdio /\ [][NextStdio]_vars

NextCatch ==
    \/ handleStartCatches
       /\ UNCHANGED <<auditVars, corrVars, keyVars, degradedVars, stdioVars, mcpVars, scoreVars, creditVars, readyVars, localVars, hostVars,
                      x402Vars, verifyVars, stakeVars, botVars, schedVars>>
    \/ handleSetTimezoneCatches
       /\ UNCHANGED <<auditVars, corrVars, keyVars, degradedVars, stdioVars, mcpVars, scoreVars, creditVars, readyVars, localVars, hostVars,
                      x402Vars, verifyVars, stakeVars, botVars, schedVars>>
    \/ handleReservoirCatches
       /\ UNCHANGED <<auditVars, corrVars, keyVars, degradedVars, stdioVars, mcpVars, scoreVars, creditVars, readyVars, localVars, hostVars,
                      x402Vars, verifyVars, stakeVars, botVars, schedVars>>
    \/ handleSunsetReflectionCatches
       /\ UNCHANGED <<auditVars, corrVars, keyVars, degradedVars, stdioVars, mcpVars, scoreVars, creditVars, readyVars, localVars, hostVars,
                      x402Vars, verifyVars, stakeVars, botVars, schedVars>>
    \/ handleAllMessagesCatches
       /\ UNCHANGED <<auditVars, corrVars, keyVars, degradedVars, stdioVars, mcpVars, scoreVars, creditVars, readyVars, localVars, hostVars,
                      x402Vars, verifyVars, stakeVars, botVars, schedVars>>
    \/ handleEveningAuditCatches
       /\ UNCHANGED <<auditVars, corrVars, keyVars, degradedVars, stdioVars, mcpVars, scoreVars, creditVars, readyVars, localVars, hostVars,
                      x402Vars, verifyVars, stakeVars, botVars, schedVars>>

\* The bot is polling; no handler has met an exception.
InitCatch ==
    /\ chatReplies = <<>>
    /\ gate = GateIdle
    /\ processed_transactions = <<>>
    /\ vault_balance = 0
    /\ vreq = <<>>
    /\ creditLog = <<>>
    /\ daily_logs = <<>>
    /\ remote_balance = 0
    /\ sreq = <<>>
    /\ stakeStore = "remote"
    /\ stakeCredits = <<>>
    /\ userFlowState = Undef
    /\ userMissionState = NoMissionState
    /\ userRow = Row(FALSE, AllColumns, FALSE, FALSE, 0, Undef)
    /\ botLogs = {}
    /\ handlers = <<>>
    /\ briefings = 0
    /\ selfProtocol = "verified_human"
    /\ attested = FALSE
    /\ now = 0
    /\ ticks = 0
    /\ lastTriggered = {}
    /\ pendingSunset = FALSE
    /\ nudges = NoNudges
    /\ startup = Listening
    /\ healthAnswers = <<>>
    /\ local_users = {KnownUser}
    /\ daily_summary = <<>>
    /\ daily_missions = <<>>
    /\ lcalls = <<>>
    /\ sqlite = Connected(FullSchema)
    /\ readyPromise = "resolved"
    /\ queries = {}
    /\ credits = NoCredits(0)
    /\ remote_logs = <<>>
    /\ scoreDay = FirstScoreDay
    /\ apiDb = "ready"
    /\ scoreAnswers = {}
    /\ mcpVault = VaultAddr
    /\ mcpExchange = NoExchange
    /\ stdioLines = <<>>
    /\ stdioPending = {}
    /\ stdout = <<>>
    /\ stderr = <<>>
    /\ remoteDb = Constructed("url", "key")
    /\ remoteCalls = <<>>
    /\ keysFile = NoKeysFile
    /\ nextKeypair = 1
    /\ keyRemovals = 0
    /\ keyProcs = IdleKeyProcs
    /\ keyLog = <<>>
    /\ weeklyData = <<>>
    /\ correlation = NotAnalyzed
    /\ todayMissions = 0
    /\ audit = AuditIdle

SpecCatch == InitCatch /\ [][NextCatch]_vars

NextDegraded ==
    \/ (\E ok \in BOOLEAN : RemoteInit(ok))
       /\ UNCHANGED <<auditVars, corrVars, keyVars, catchVars, stdioVars, mcpVars, scoreVars, creditVars, readyVars, localVars,
                      hostVars, x402Vars, verifyVars, stakeVars, botVars, schedVars>>
    \/ RemoteWaitReady
       /\ UNCHANGED <<auditVars, corrVars, keyVars, catchVars, stdioVars, mcpVars, scoreVars, creditVars, readyVars, localVars,
                      hostVars, x402Vars, verifyVars, stakeVars, botVars, schedVars>>
    \/ (\E method \in QueryMethods : RemoteQuery(method))
       /\ UNCHANGED <<auditVars, corrVars, keyVars, catchVars, stdioVars, mcpVars, scoreVars, creditVars, readyVars, localVars,
                      hostVars, x402Vars, verifyVars, stakeVars, botVars, schedVars>>
    \/ (\E method \in DOMAIN LegacyShims : RemoteShim(method))
       /\ UNCHANGED <<auditVars, corrVars, keyVars, catchVars, stdioVars, mcpVars, scoreVars, creditVars, readyVars, localVars,
                      hostVars, x402Vars, verifyVars, stakeVars, botVars, schedVars>>

\* new Database(config) has returned, for any configuration.
InitDegraded ==
    /\ remoteDb \in {Constructed(c[1], c[2]) : c \in Credentials}
    /\ remoteCalls = <<>>
    /\ gate = GateIdle
    /\ processed_transactions = <<>>
    /\ vault_balance = 0
    /\ vreq = <<>>
    /\ creditLog = <<>>
    /\ daily_logs = <<>>
    /\ remote_balance = 0
    /\ sreq = <<>>
    /\ stakeStore = "remote"
    /\ stakeCredits = <<>>
    /\ userFlowState = Undef
    /\ userMissionState = NoMissionState
    /\ userRow = Row(FALSE, AllColumns, FALSE, FALSE, 0, Undef)
    /\ botLogs = {}
    /\ handlers = <<>>
    /\ briefings = 0
    /\ selfProtocol = "verified_human"
    /\ attested = FALSE
    /\ now = 0
    /\ ticks = 0
    /\ lastTriggered = {}
    /\ pendingSunset = FALSE
    /\ nudges = NoNudges
    /\ startup = Listening
    /\ healthAnswers = <<>>
    /\ local_users = {KnownUser}
    /\ daily_summary = <<>>
    /\ daily_missions = <<>>
    /\ lcalls = <<>>
    /\ sqlite = Connected(FullSchema)
    /\ readyPromise = "resolved"
    /\ queries = {}
    /\ credits = NoCredits(0)
    /\ remote_logs = <<>>
    /\ scoreDay = FirstScoreDay
    /\ apiDb = "ready"
    /\ scoreAnswers = {}
    /\ mcpVault = VaultAddr
    /\ mcpExchange = NoExchange
    /\ stdioLines = <<>>
    /\ stdioPending = {}
    /\ stdout = <<>>
    /\ stderr = <<>>
    /\ chatReplies = <<>>
    /\ keysFile = NoKeysFile
    /\ nextKeypair = 1
    /\ keyRemovals = 0
    /\ keyProcs = IdleKeyProcs
    /\ keyLog = <<>>
    /\ weeklyData = <<>>
    /\ correlation = NotAnalyzed
    /\ todayMissions = 0
    /\ audit = AuditIdle

SpecDegraded == InitDegraded /\ [][NextDegraded]_vars

NextKeys ==
    \/ (\E p \in KeyRuns : KeyCheck(p))
       /\ UNCHANGED <<auditVars, corrVars, degradedVars, catchVars, stdioVars, mcpVars, scoreVars, creditVars, readyVars, localVars,
                      hostVars, x402Vars, verifyVars, stakeVars, botVars, schedVars>>
    \/ (\E p \in KeyRuns : KeyLoad(p))
       /\ UNCHANGED <<auditVars, corrVars, degradedVars, catchVars, stdioVars, mcpVars, scoreVars, creditVars, readyVars, localVars,
                      hostVars, x402Vars, verifyVars, stakeVars, botVars, schedVars>>
    \/ (\E p \in KeyRuns : KeyGenerate(p))
       /\ UNCHANGED <<auditVars, corrVars, degradedVars, catchVars, stdioVars, mcpVars, scoreVars, creditVars, readyVars, localVars,
                      hostVars, x402Vars, verifyVars, stakeVars, botVars, schedVars>>
    \/ (\E p \in KeyRuns : KeyWrite(p))
       /\ UNCHANGED <<auditVars, corrVars, degradedVars, catchVars, stdioVars, mcpVars, scoreVars, creditVars, readyVars, localVars,
                      hostVars, x402Vars, verifyVars, stakeVars, botVars, schedVars>>
    \/ KeysFileRemoved
       /\ UNCHANGED <<auditVars, corrVars, degradedVars, catchVars, stdioVars, mcpVars, scoreVars, creditVars, readyVars, localVars,
                      hostVars, x402Vars, verifyVars, stakeVars, botVars, schedVars>>

\* No run has called loadOrCreateKeypair yet and there is no key file.
InitKeys ==
    /\ keysFile = NoKeysFile
    /\ nextKeypair = 1
    /\ keyRemovals = 0
    /\ keyProcs = IdleKeyProcs
    /\ keyLog = <<>>
    /\ gate = GateIdle
    /\ processed_transactions = <<>>
    /\ vault_balance = 0
    /\ vreq = <<>>
    /\ creditLog = <<>>
    /\ daily_logs = <<>>
    /\ remote_balance = 0
    /\ sreq = <<>>
    /\ stakeStore = "remote"
    /\ stakeCredits = <<>>
    /\ userFlowState = Undef
    /\ userMissionState = NoMissionState
    /\ userRow = Row(FALSE, AllColumns, FALSE, FALSE, 0, Undef)
    /\ botLogs = {}
    /\ handlers = <<>>
    /\ briefings = 0
    /\ selfProtocol = "verified_human"
    /\ attested = FALSE
    /\ now = 0
    /\ ticks = 0
    /\ lastTriggered = {}
    /\ pendingSunset = FALSE
    /\ nudges = NoNudges
    /\ startup = Listening
    /\ healthAnswers = <<>>
    /\ local_users = {KnownUser}
    /\ daily_summary = <<>>
    /\ daily_missions = <<>>
    /\ lcalls = <<>>
    /\ sqlite = Connected(FullSchema)
    /\ readyPromise = "resolved"
    /\ queries = {}
    /\ credits = NoCredits(0)
    /\ remote_logs = <<>>
    /\ scoreDay = FirstScoreDay
    /\ apiDb = "ready"
    /\ scoreAnswers = {}
    /\ mcpVault = VaultAddr
    /\ mcpExchange = NoExchange
    /\ stdioLines = <<>>
    /\ stdioPending = {}
    /\ stdout = <<>>
    /\ stderr = <<>>
    /\ chatReplies = <<>>
    /\ remoteDb = Constructed("url", "key")
    /\ remoteCalls = <<>>
    /\ weeklyData = <<>>
    /\ correlation = NotAnalyzed
    /\ todayMissions = 0
    /\ audit = AuditIdle

SpecKeys == InitKeys /\ [][NextKeys]_vars

NextCorrelation ==
    AnalyzeCorrelation
       /\ UNCHANGED <<auditVars, keyVars, degradedVars, catchVars, stdioVars, mcpVars, scoreVars, creditVars, readyVars, localVars,
                      hostVars, x402Vars, verifyVars, stakeVars, botVars, schedVars>>

\* Any weekly record set, not yet analyzed.
InitCorrelation ==
    /\ weeklyData \in WeeklyDatas
    /\ correlation = NotAnalyzed
    /\ gate = GateIdle
    /\ processed_transactions = <<>>
    /\ vault_balance = 0
    /\ vreq = <<>>
    /\ creditLog = <<>>
    /\ daily_logs = <<>>
    /\ remote_balance = 0
    /\ sreq = <<>>
    /\ stakeStore = "remote"
    /\ stakeCredits = <<>>
    /\ userFlowState = Undef
    /\ userMissionState = NoMissionState
    /\ userRow = Row(FALSE, AllColumns, FALSE, FALSE, 0, Undef)
    /\ botLogs = {}
    /\ handlers = <<>>
    /\ briefings = 0
    /\ selfProtocol = "verified_human"
    /\ attested = FALSE
    /\ now = 0
    /\ ticks = 0
    /\ lastTriggered = {}
    /\ pendingSunset = FALSE
    /\ nudges = NoNudges
    /\ startup = Listening
    /\ healthAnswers = <<>>
    /\ local_users = {KnownUser}
    /\ daily_summary = <<>>
    /\ daily_missions = <<>>
    /\ lcalls = <<>>
    /\ sqlite = Connected(FullSchema)
    /\ readyPromise = "resolved"
    /\ queries = {}
    /\ credits = NoCredits(0)
    /\ remote_logs = <<>>
    /\ scoreDay = FirstScoreDay
    /\ apiDb = "ready"
    /\ scoreAnswers = {}
    /\ mcpVault = VaultAddr
    /\ mcpExchange = NoExchange
    /\ stdioLines = <<>>
    /\ stdioPending = {}
    /\ stdout = <<>>
    /\ stderr = <<>>
    /\ chatReplies = <<>>
    /\ remoteDb = Constructed("url", "key")
    /\ remoteCalls = <<>>
    /\ keysFile = NoKeysFile
    /\ nextKeypair = 1
    /\ keyRemovals = 0
    /\ keyProcs = IdleKeyProcs
    /\ keyLog = <<>>
    /\ todayMissions = 0
    /\ audit = AuditIdle

SpecCorrelation == InitCorrelation /\ [][NextCorrelation]_vars

NextAudit ==
    \/ (\E reply \in AuditReplies : AuditBegin(reply))
       /\ UNCHANGED <<userMissionState, userRow, botLogs, handlers, briefings, selfProtocol, attested>>
       /\ UNCHANGED <<corrVars, keyVars, degradedVars, catchVars, stdioVars, mcpVars, scoreVars, creditVars, readyVars, localVars,
                      hostVars, x402Vars, verifyVars, stakeVars, schedVars>>
    \/ AuditGetTodayMissions
       /\ UNCHANGED <<userMissionState, userRow, botLogs, handlers, briefings, selfProtocol, attested>>
       /\ UNCHANGED <<corrVars, keyVars, degradedVars, catchVars, stdioVars, mcpVars, scoreVars, creditVars, readyVars, localVars,
                      hostVars, x402Vars, verifyVars, stakeVars, schedVars>>
    \/ (\E rejects \in BOOLEAN : AuditUpdateMissionCompletion(rejects))
       /\ UNCHANGED <<userMissionState, userRow, botLogs, handlers, briefings, selfProtocol, attested>>
       /\ UNCHANGED <<corrVars, keyVars, degradedVars, catchVars, stdioVars, mcpVars, scoreVars, creditVars, readyVars, localVars,
                      hostVars, x402Vars, verifyVars, stakeVars, schedVars>>

\* handleEveningAudit has asked which missions were completed; today's
\* list has up to three missions.
InitAudit ==
    /\ todayMissions \in 0..MaxAuditMissions
    /\ audit = AuditIdle
    /\ userFlowState = "mission_audit"
    /\ gate = GateIdle
    /\ processed_transactions = <<>>
    /\ vault_balance = 0
    /\ vreq = <<>>
    /\ creditLog = <<>>
    /\ daily_logs = <<>>
    /\ remote_balance = 0
    /\ sreq = <<>>
    /\ stakeStore = "remote"
    /\ stakeCredits = <<>>
    /\ userMissionState = NoMissionState
    /\ userRow = Row(FALSE, AllColumns, FALSE, FALSE, 0, Undef)
    /\ botLogs = {}
    /\ handlers = <<>>
    /\ briefings = 0
    /\ selfProtocol = "verified_human"
    /\ attested = FALSE
    /\ now = 0
    /\ ticks = 0
    /\ lastTriggered = {}
    /\ pendingSunset = FALSE
    /\ nudges = NoNudges
    /\ startup = Listening
    /\ healthAnswers = <<>>
    /\ local_users = {KnownUser}
    /\ daily_summary = <<>>
    /\ daily_missions = <<>>
    /\ lcalls = <<>>
    /\ sqlite = Connected(FullSchema)
    /\ readyPromise = "resolved"
    /\ queries = {}
    /\ credits = NoCredits(0)
    /\ remote_logs = <<>>
    /\ scoreDay = FirstScoreDay
    /\ apiDb = "ready"
    /\ scoreAnswers = {}
    /\ mcpVault = VaultAddr
    /\ mcpExchange = NoExchange
    /\ stdioLines = <<>>
    /\ stdioPending = {}
    /\ stdout = <<>>
    /\ stderr = <<>>
    /\ chatReplies = <<>>
    /\ remoteDb = Constructed("url", "key")
    /\ remoteCalls = <<>>
    /\ keysFile = NoKeysFile
    /\ nextKeypair = 1
    /\ keyRemovals = 0
    /\ keyProcs = IdleKeyProcs
    /\ keyLog = <<>>
    /\ weeklyData = <<>>
    /\ correlation = NotAnalyzed

SpecAudit == InitAudit /\ [][NextAudit]_vars

(***************************************************************************)
(* Properties.                                                             *)
(***************************************************************************)
\* ---- x402 middleware (SpecX402) ----

GateAnswered == gate.phase = "done" /\ gate.route = "gate"
VerifyAnswered == gate.phase = "done" /\ gate.route = "verify"

\* A transaction hash can be extracted from the X-PAYMENT header.
HashExtractable(h) ==
    \/ h.kind = "raw"
    \/ h.kind = "object" /\ (Truthy(h.txHash) \/ Truthy(h.tx_hash) \/ Truthy(h.hash))

HeaderHash(h) ==
    IF h.kind = "raw" THEN h.raw ELSE FirstTruthy(h.txHash, h.tx_hash, h.hash)

ListedRefusals ==
    { <<503, "VAULT_ADDRESS not configured">>, <<400, "invalid_payment_header">>,
      <<400, "missing_tx_hash">>, <<402, "payment_required">>,
      <<402, "payment_verification_failed">> }

\* C7 (as stated): the gate calls the downstream handler, with req.x402
\* attached, if and only if an X-PAYMENT header is present, a hash can be
\* extracted from it and verifyPayment returns valid for it; in every other
\* case the request ends with one of the five listed refusals.
C7_GateCallsNextIffPaid ==
    GateAnswered =>
        LET paid == /\ gate.vault # ""
                    /\ gate.header.kind # "absent"
                    /\ HashExtractable(gate.header)
                    /\ verifyPayment(HeaderHash(gate.header), gate.vault, gate.opts.amount,
                                     gate.tx, gate.receipt).valid
        IN /\ gate.resp.nextCalled <=> paid
           /\ gate.resp.nextCalled => gate.resp.x402.verified
           /\ ~gate.resp.nextCalled => <<gate.resp.status, gate.resp.error>> \in ListedRefusals

\* C8: a request with no X-PAYMENT header and a configured vault is answered
\* 402, and the X-PAYMENT-REQUIRED header, JSON-parsed, equals the
\* paymentRequirements object of the response body.
C8_RequirementsRoundTrip ==
    (GateAnswered /\ gate.header.kind = "absent" /\ gate.vault # "") =>
        /\ gate.resp.status = 402
        /\ JSONParse(gate.resp.xPaymentRequired).t = "object"
        /\ JSONParse(gate.resp.xPaymentRequired)
             = Member(JSONParse(gate.resp.body).o, "paymentRequirements")

\* C8 witness: a 402 was sent for a request without a resource option, so
\* the requirements name the request's URL.
C8_Witness ==
    /\ GateAnswered /\ gate.header.kind = "absent" /\ gate.vault = VaultAddr
    /\ gate.opts.resource = Undef /\ gate.opts.amount = 100
    /\ gate.resp.status = 402
    /\ Member(JSONParse(gate.resp.xPaymentRequired).o, "resource") = JsStr(gate.url)

\* The logs verifyPayment counts: Transfer events with at least three topics
\* whose recipient topic is the vault, whatever contract emitted them.
CountedLogs(logs, vault) ==
    {i \in DOMAIN logs : logs[i].ntopics >= 3 /\ logs[i].topic0 = TRANSFER_EVENT_TOPIC
                         /\ logs[i].to = vault}

\* The logs the specification counts: the stablecoin's Transfer events whose
\* recipient is the vault.
StablecoinLogs(logs, vault) ==
    {i \in CountedLogs(logs, vault) : logs[i].address = CELO_CUSD_ADDRESS}

RECURSIVE SumData(_, _)
SumData(logs, idx) ==
    IF idx = {} THEN 0
    ELSE LET i == CHOOSE j \in idx : TRUE
         IN logs[i].data + SumData(logs, idx \ {i})

CountedAmount(tx, receipt, vault) ==
    LET sum == SumData(receipt.logs, CountedLogs(receipt.logs, vault))
    IN IF sum = 0 /\ tx.to = vault /\ tx.value > 0 THEN tx.value ELSE sum

ClaimedAmount(tx, receipt, vault) ==
    LET matched == StablecoinLogs(receipt.logs, vault)
    IN IF matched = {} /\ tx.to = vault THEN tx.value ELSE SumData(receipt.logs, matched)

\* C9 (as stated): verifyPayment is valid exactly when the transaction
\* exists, its receipt reports success and the amount is at least 99% of
\* expectedAmount; otherwise it returns the first applicable of rpc_error,
\* tx_not_found, tx_failed, insufficient_amount (with expected and received).
C9_FourErrors ==
    VerifyAnswered =>
        LET r == gate.vp
            exists == gate.tx.kind = "tx"
            success == gate.receipt.kind = "receipt" /\ gate.receipt.status = 1
            amt == CountedAmount(gate.tx, gate.receipt, gate.vault)
            enough == 100 * amt >= 99 * gate.opts.amount
        IN /\ r.valid <=> (exists /\ success /\ enough)
           /\ ~r.valid =>
                IF gate.tx.kind = "throw" THEN r.error = "rpc_error"
                ELSE IF gate.tx.kind = "null" THEN r.error = "tx_not_found"
                ELSE IF gate.receipt.kind = "throw" THEN r.error \in {"rpc_error", "tx_failed"}
                ELSE IF ~success THEN r.error = "tx_failed"
                ELSE /\ r.error = "insufficient_amount" /\ r.carries
                     /\ r.expected = gate.opts.amount /\ r.received = amt

\* C9 (amended): verifyPayment returns the first applicable of rpc_error,
\* tx_not_found, receipt_error (the receipt fetch failed) and tx_failed; past
\* these it throws when a counted log has empty data; otherwise it returns
\* insufficient_amount, with expected and received, when the counted amount
\* is below 99% of expectedAmount, and valid with that amount when it is not.
C9_FiveErrors ==
    VerifyAnswered =>
        LET r == gate.vp
            logs == gate.receipt.logs
            amt == CountedAmount(gate.tx, gate.receipt, gate.vault)
        IN IF gate.tx.kind = "throw" THEN r.outcome = "return" /\ ~r.valid /\ r.error = "rpc_error"
           ELSE IF gate.tx.kind = "null"
           THEN r.outcome = "return" /\ ~r.valid /\ r.error = "tx_not_found"
           ELSE IF gate.receipt.kind = "throw"
           THEN r.outcome = "return" /\ ~r.valid /\ r.error = "receipt_error"
           ELSE IF gate.receipt.kind = "null" \/ gate.receipt.status # 1
           THEN r.outcome = "return" /\ ~r.valid /\ r.error = "tx_failed"
           ELSE IF \E i \in CountedLogs(logs, gate.vault) : logs[i].dataEmpty
           THEN r.outcome = "throw" /\ ~r.valid
           ELSE IF 100 * amt < 99 * gate.opts.amount
           THEN /\ r.outcome = "return" /\ ~r.valid /\ r.error = "insufficient_amount"
                /\ r.carries /\ r.expected = gate.opts.amount /\ r.received = amt
           ELSE r.outcome = "return" /\ r.valid /\ r.amount = amt /\ r.error = ""

\* C9 witness: a transfer of 90% of the expected amount (99 of 110) was
\* rejected with insufficient_amount, carrying both figures.
C9_Witness ==
    /\ VerifyAnswered /\ gate.opts.amount = 110
    /\ gate.vp.error = "insufficient_amount" /\ gate.vp.carries
    /\ gate.vp.expected = 110 /\ gate.vp.received = 99

\* C10 (as stated): the compared amount is the sum over the stablecoin's
\* Transfer events to the vault; other contracts' logs contribute nothing;
\* the native value is used only when no such transfer matched and the
\* transaction's recipient is the vault.
C10_OnlyStablecoinCounts ==
    (VerifyAnswered /\ gate.vp.outcome = "return"
        /\ (gate.vp.valid \/ gate.vp.error = "insufficient_amount")) =>
        (IF gate.vp.valid THEN gate.vp.amount ELSE gate.vp.received)
            = ClaimedAmount(gate.tx, gate.receipt, gate.vault)

\* ---- verifier micro-service (SpecVerify) ----

VerifyHashes == {b.tx_hash : b \in VerifyBodies}

RecordsOf(h) == Cardinality({i \in DOMAIN processed_transactions :
                               processed_transactions[i].tx_hash = h})
CreditsOf(h) == Cardinality({i \in DOMAIN creditLog : creditLog[i].tx_hash = h})

RECURSIVE CreditedTo(_, _)
CreditedTo(user, n) ==
    IF n = 0 THEN 0
    ELSE CreditedTo(user, n - 1)
           + (IF creditLog[n].user = user THEN creditLog[n].amount ELSE 0)

StakeRecordsOf(h) == Cardinality({i \in DOMAIN daily_logs :
                                    /\ daily_logs[i].log_type = "processed_transaction"
                                    /\ daily_logs[i].tx_hash = h})
StakeCreditsOf(h) == Cardinality({i \in DOMAIN stakeCredits : stakeCredits[i].tx_hash = h})

\* C2 (as stated): however many GET /x402/stake requests with a user id
\* present the same valid transaction hash, sequentially or concurrently,
\* at most one processed-transaction entry is recorded for the hash and
\* the user's vault balance is credited exactly once.
C2_StakeRecordedAndCreditedOnce ==
    \A h \in {"0xa", "0xb", "0xc"} :
        /\ StakeRecordsOf(h) <= 1
        /\ StakeCreditsOf(h) <= 1
        /\ (stakeStore = "remote" /\ \E i \in DOMAIN sreq :
              sreq[i].txHash = h /\ sreq[i].user = KnownUser /\ sreq[i].status = 200)
             => StakeCreditsOf(h) = 1

\* The rows handler k has written, and the rows that came from Mission
\* state b.
RowsBy(k) == {r \in botLogs : r.by = k}
RowsOf(b, log_type) == {r \in botLogs : r.briefing = b /\ r.log_type = log_type}

\* C3: when handleMissionBriefingConfirm finds the user unverified, it sends
\* the call-to-action and stops: that step leaves the flow state, the
\* Mission state and the stored rows as they were, and the handler neither
\* goes on to saveMissions or saveDailySummary nor has written any row.
C3_UnverifiedConfirmHalts ==
    [][\A k \in DOMAIN handlers :
         /\ ( /\ handlers[k].kind = "confirm"
              /\ handlers[k].pc = "isVerified"
              /\ handlers'[k].pc # "isVerified"
              /\ ~isVerified(userRow, selfProtocol) )
            => /\ handlers'[k].pc = "cta"
               /\ userFlowState' = userFlowState
               /\ userMissionState' = userMissionState
               /\ botLogs' = botLogs
         /\ handlers[k].pc = "cta"
            => /\ handlers'[k].pc = "cta"
               /\ RowsBy(k) = {}]_vars

\* An unverified YES was halted with the flow state and the Mission state
\* in place; after the vault was credited a second YES completed the same
\* briefing and wrote its Daily Summary.
C3_Witness ==
    /\ Len(handlers) = 2
    /\ handlers[1].pc = "cta"
    /\ handlers[2].pc = "done"
    /\ handlers[2].state = handlers[1].state
    /\ RowsBy(1) = {}
    /\ \E r \in RowsBy(2) : r.log_type = "daily_summary"

\* C4: when a confirmation completes, the store holds exactly one Daily
\* Summary entry of its briefing and one missions entry holding as many
\* missions as were entered, and the flow state and the Mission state are
\* absent, also when a second YES arrived while the first was awaiting the
\* store.
C4_OneSummaryPerConfirmation ==
    [][\A k \in DOMAIN handlers :
         ( /\ handlers[k].kind = "confirm"
           /\ handlers[k].pc = "recordVerificationAttempt"
           /\ handlers'[k].pc = "done" )
         => /\ userFlowState' = Undef
            /\ ~userMissionState'.present
            /\ Cardinality(RowsOf(handlers[k].state.briefing, "daily_summary")') = 1
            /\ Cardinality(RowsOf(handlers[k].state.briefing, "missions")') = 1
            /\ \A r \in RowsOf(handlers[k].state.briefing, "missions")' :
                 r.count = Len(handlers[k].state.missions)]_vars

\* C5: within one calendar day each of the morning, sunset and weekly
\* triggers calls its handler at most once for the user, and sixty ticks
\* that span the user's 08:00 produce exactly one morning nudge.
C5_EachTriggerOncePerDay ==
    /\ nudges.morning <= 1
    /\ nudges.sunset <= 1
    /\ nudges.weekly <= 1
    /\ (ticks = MaxTicks /\ nudges.crossed >= 1) => nudges.morning = 1

\* C6: a tick that finds the user in onboarding_city or a mission_briefing
\* state starts no sunset handler and leaves the flow state alone, and a
\* sunset handler the scheduler started does not overwrite such a state when
\* it resumes from the store.
C6_SunsetNeverInterrupts ==
    [][/\ (ticks' # ticks /\ userFlowState \in BlockingStates)
          => (handlers' = handlers /\ userFlowState' = userFlowState)
       /\ \A k \in DOMAIN handlers :
            ( /\ handlers[k].kind = "sunset"
              /\ handlers'[k].pc # handlers[k].pc
              /\ userFlowState \in BlockingStates )
            => userFlowState' = userFlowState]_vars

\* The answer the isVerified contract prescribes for a user record.
PrescribedVerified(user) ==
    IF ~user.exists THEN FALSE
    ELSE IF "verified_human" \in user.columns THEN user.verified_human
    ELSE IF "verified" \in user.columns THEN user.verified
    ELSE "vault_balance" \in user.columns /\ user.vault_balance > 0

\* handler k resumes from isVerified in this step.
IsVerifiedAnswers(k) ==
    /\ handlers[k].kind = "confirm"
    /\ handlers[k].pc = "isVerified"
    /\ handlers'[k].pc # "isVerified"

\* C11: isVerified answers false for an absent user and when the lookup
\* raises; otherwise it answers verified_human if the field exists, else
\* verified if that exists, else whether vault_balance is positive.
C11_IsVerifiedPrecedence ==
    [][\A k \in DOMAIN handlers :
         IsVerifiedAnswers(k)
         => ((handlers'[k].pc # "cta")
             = (~handlers'[k].threw /\ PrescribedVerified(userRow)))]_vars

\* C12: once POST /api/verify has answered 200 for the user, isVerified
\* answers true for that user whenever its lookup succeeds, so a YES at
\* mission_briefing_confirm is not halted by the verification gate.
C12_WebhookUnblocksConfirm ==
    [][\A k \in DOMAIN handlers :
         (IsVerifiedAnswers(k) /\ attested /\ ~handlers'[k].threw)
         => handlers'[k].pc # "cta"]_vars

\* ---- server start-up (SpecStartup) ----

AStartupStepFailed ==
    \/ startup.apiDb = "failed"
    \/ startup.bot = "failed"
    \/ startup.scheduler = "failed"

\* C13: whatever fails while main() sets up the store, the bot and the
\* scheduler, the process stays alive and every GET /health request is
\* answered with 200.
C13_StartupFailuresAreContained ==
    AStartupStepFailed =>
        /\ startup.alive
        /\ \A i \in DOMAIN healthAnswers : healthAnswers[i] = HealthOk

\* ---- local store, daily tables (SpecLocal) ----

\* C14: after any sequence of saveDailySummary, recordVerificationAttempt
\* and updateSunsetMood calls, daily_summary holds at most one row per user
\* and date.
C14_OneSummaryRowPerUserAndDate ==
    \A user \in LocalUsers : Cardinality(TodayRows(daily_summary, user)) <= 1

MissionRows(user) ==
    {i \in DOMAIN daily_missions :
        daily_missions[i].user_id = user /\ daily_missions[i].mission_date = Today}

\* C15: whatever the bot has saved, a user has at most three Daily Mission
\* rows for one calendar date.
C15_AtMostThreeMissionRows ==
    \A user \in LocalUsers : Cardinality(MissionRows(user)) <= 3

\* ---- Mission Briefing, the goals reply (SpecBot) ----

\* The first n non-empty trimmed entries of pieces from entry i on, in
\* their original order.
RECURSIVE FirstEntries(_, _, _)
FirstEntries(pieces, i, n) ==
    IF i > Len(pieces) \/ n = 0 THEN <<>>
    ELSE IF Trim(pieces[i]) = "" THEN FirstEntries(pieces, i + 1, n)
    ELSE <<Trim(pieces[i])>> \o FirstEntries(pieces, i + 1, n - 1)

OneToThreeOf(missions, reply) ==
    /\ Len(missions) >= 1 /\ Len(missions) <= 3
    /\ missions = FirstEntries(reply, 1, 3)

\* C16: in mission_briefing_stake and mission_briefing_confirm the Mission
\* state holds one to three missions, the first three non-empty trimmed
\* entries of the goals reply in order, and a missions entry that a YES
\* persists holds exactly these.
C16_MissionsAreFirstThreeGoals ==
    /\ userFlowState \in {"mission_briefing_stake", "mission_briefing_confirm"}
         => /\ userMissionState.present
            /\ OneToThreeOf(userMissionState.missions, userMissionState.reply)
    /\ \A r \in botLogs :
         r.log_type = "missions"
            => /\ OneToThreeOf(r.missions, handlers[r.by].state.reply)
               /\ r.count = Len(r.missions)

\* A YES has persisted the first three of a five-entry goals reply, one
\* entry of which was blank.
C16_Witness ==
    \E r \in botLogs :
        /\ r.log_type = "missions"
        /\ Len(handlers[r.by].state.reply) = 5
        /\ r.missions = <<"run", "read", "gym">>

\* ---- local store, the sunset mood (SpecLocal) ----

\* The morning energy the delta is taken against: the stored one, or 3
\* when the user has no summary row for today.
StoredMorningEnergy(table, user) ==
    IF getTodaySummary(table, user).found
    THEN Num(getTodaySummary(table, user).row.morning_energy)
    ELSE 3

SunsetMoodRejects(k) ==
    /\ k \notin DOMAIN lcalls
    /\ lcalls'[k].op = "updateSunsetMood"
    /\ lcalls'[k].mood \notin 1..5

SunsetMoodResolves(k) ==
    /\ k \in DOMAIN lcalls
    /\ lcalls[k].op = "updateSunsetMood"
    /\ lcalls[k].pc = "update"
    /\ lcalls'[k].pc = "resolved"

\* C17: updateSunsetMood with a mood of 1..5 resolves with mood_delta = mood
\* minus the stored morning energy (3 without a summary row), and
\* getTodaySummary then shows that evening_mood and mood_delta; with a mood
\* outside 1..5 it rejects and changes nothing.
C17_SunsetMoodDelta ==
    [][\A k \in DOMAIN lcalls' :
          /\ SunsetMoodRejects(k)
               => lcalls'[k].pc = "rejected" /\ daily_summary' = daily_summary
          /\ SunsetMoodResolves(k)
               => LET c == lcalls'[k]
                      delta == c.mood - StoredMorningEnergy(daily_summary, c.user)
                      after == getTodaySummary(daily_summary', c.user)
                  IN /\ c.result.mood_delta = {delta}
                     /\ after.found
                     /\ after.row.evening_mood = {c.mood}
                     /\ after.row.mood_delta = {delta}]_vars

\* ---- local store, the ready signal (SpecReady) ----

SchemaSetupCompleted ==
    /\ CreateStatements \cup PragmaStatements \subseteq sqlite.done
    /\ \A st \in sqlite.pending : st.kind = "query"

\* C18: the ready signal is resolved only once every table-creation and
\* migration statement has completed, and no statement of a public method
\* runs against a missing table or column.
C18_ReadyAfterSchemaSetup ==
    /\ readyPromise = "resolved" => SchemaSetupCompleted
    /\ \A q \in queries : q.ok

\* ---- creditUserVault in both stores (SpecCredit) ----

RECURSIVE CreditedIn(_, _)
CreditedIn(store, k) ==
    IF k = 0 THEN 0
    ELSE CreditedIn(store, k - 1)
            + (IF credits.calls[k].store = store THEN credits.calls[k].amount ELSE 0)

AllCreditsCompleted == \A k \in DOMAIN credits.calls : credits.calls[k].pc = "resolved"

\* C20: once the creditUserVault calls made for the user have all
\* completed, each store's vault_balance is its initial value plus the sum
\* of the amounts credited in that store.
C20_BalanceIsSumOfCredits ==
    AllCreditsCompleted =>
        /\ vault_balance = credits.base + CreditedIn("local", Len(credits.calls))
        /\ remote_balance = credits.base + CreditedIn("remote", Len(credits.calls))

\* ---- local store, the verification attempts (SpecLocal) ----

\* The recordVerificationAttempt calls made for a user, in call order.
AttemptCalls(user) ==
    SelectSeq(lcalls, LAMBDA c : c.op = "recordVerificationAttempt" /\ c.user = user)

AttemptsInCallOrder(user) ==
    [j \in 1..Len(AttemptCalls(user)) |-> AttemptCalls(user)[j].attempt]

AttemptsCompleted(user) ==
    /\ Len(AttemptCalls(user)) > 0
    /\ \A j \in 1..Len(AttemptCalls(user)) : AttemptCalls(user)[j].pc = "resolved"

\* C19: once the recordVerificationAttempt calls made for a user today have
\* completed, the user's daily_summary notes for the day hold all their
\* attempts, in call order.
C19_NotesHoldEveryAttempt ==
    \A user \in LocalUsers :
        AttemptsCompleted(user)
            => \E i \in TodayRows(daily_summary, user) :
                   daily_summary[i].notes = AttemptsInCallOrder(user)

\* The stake a saveMissions call was given, as the row it wrote holds it.
SavedStake(row) ==
    NumberOrZero(Coalesce(JsonGet(row.details, "staked_amount"),
                          JsonGet(row.details, "stakedAmount")))

SumOfSavedStakes(logs, telegramId) ==
    SumOver([i \in 1..Len(logs) |-> SavedStake(logs[i])],
            SelectLogs(logs, telegramId, "missions"))

\* C21: in the remote store getTotalStaked(user) is the sum of the
\* stakedAmount arguments of all the saveMissions calls made for that user
\* (each call wrote one missions row, which holds its argument).
C21_TotalStakedIsSumOfStakes ==
    \A u \in ScoreUsers :
        getTotalStaked(remote_logs, u) = SumOfSavedStakes(remote_logs, u)

\* clamp(lo, hi, x)
Clamp(lo, hi, x) == IF x < lo THEN lo ELSE IF x > hi THEN hi ELSE x

\* g is num / den rounded to the nearest integer, halves up (den > 0).
IsRounded(g, num, den) == 2 * den * g <= 2 * num + den /\ 2 * num + den < 2 * den * (g + 1)

\* (clamp(1,5,avgEnergy)/5)*40 + min(40, 2*totalStaked) + min(20, 5*streak),
\* clamped to 0..100, times 5 * count, for avgEnergy = sum / count.
PrescribedScoreTimes(sum, count, totalStaked, streak) ==
    Clamp(0, 100 * 5 * count,
          40 * Clamp(count, 5 * count, sum)
          + 5 * count * (Clamp(0, 40, 2 * totalStaked) + Clamp(0, 20, 5 * streak)))

PrescribedStatus(score) ==
    CASE score >= 80 -> "Elite"
      [] score < 80 /\ score >= 50 -> "Stable"
      [] score < 50 -> "Warning"

HandlerScores == {a \in scoreAnswers : a.route = "http" /\ a.computed}

\* C22: the discipline-score handler returns grit_score =
\* round(clamp(0,100, (clamp(1,5,avgEnergy)/5)*40 + min(40, 2*totalStaked) +
\* min(20, 5*streak))) with status Elite from 80, Stable from 50, else
\* Warning; average energy 5, staked 0, streak 0 gives 40 and Warning,
\* average energy 3, staked 20, streak 4 gives 84 and Elite; the score is
\* always in 0..100.
C22_GritScoreFormula ==
    /\ \A a \in HandlerScores :
          /\ IsRounded(a.grit_score,
                       PrescribedScoreTimes(a.energy_sum, a.energy_count,
                                            a.total_staked, a.streak),
                       5 * a.energy_count)
          /\ a.status = PrescribedStatus(a.grit_score)
          /\ a.grit_score \in 0..100
          /\ (a.energy_sum = 5 * a.energy_count /\ a.total_staked = 0 /\ a.streak = 0)
                => (a.grit_score = 40 /\ a.status = "Warning")
          /\ (a.energy_sum = 3 * a.energy_count /\ a.total_staked = 20 /\ a.streak = 4)
                => (a.grit_score = 84 /\ a.status = "Elite")
    /\ GritScore(5, 1, 0, 0) = 40 /\ ScoreStatus(40) = "Warning"
    /\ GritScore(3, 1, 20, 4) = 84 /\ ScoreStatus(84) = "Elite"

\* The handler has answered 84 and Elite
\* from average energy 3, staked 20, streak 4.
C22_Witness ==
    \E a \in HandlerScores :
        /\ a.energy_sum = 3 * a.energy_count /\ a.total_staked = 20 /\ a.streak = 4
        /\ a.grit_score = 84 /\ a.status = "Elite"

\* C23: for the same store contents and the same telegram id the HTTP
\* discipline-score route, the MCP HTTP tool get_discipline_score and the
\* registerApi discipline-score route return the same grit score, streak and
\* status.
C23_ThreeRoutesAgree ==
    \A a, b \in scoreAnswers :
        (a.rows = b.rows /\ a.telegram_id = b.telegram_id)
            => /\ a.computed = b.computed
               /\ a.grit_score = b.grit_score
               /\ a.streak = b.streak
               /\ a.status = b.status

Exchanged == {i \in 1..Len(mcpExchange.messages) : mcpExchange.messages[i].jsonrpc = "2.0"}

FiveTools ==
    {"get_discipline_score", "stake_habit", "verify_x402_payment", "get_agent_metadata",
     "get_x402_requirements"}

\* C24: handleMCPMessage answers initialize with protocol version
\* 2024-11-05, capabilities and server info, ping with an empty result,
\* tools/list with the five-tool catalog, notifications/initialized with no
\* response, any other method with a JSON-RPC method-not-found error; every
\* response it produces carries the id of the request it answers, unchanged.
C24_McpAnswers ==
    /\ \A i \in Exchanged :
          LET message == mcpExchange.messages[i]
              response == mcpExchange.responses[i]
          IN /\ message.method = "initialize"
                  => /\ response.kind = "response"
                     /\ response.result = <<"protocolVersion", "2024-11-05", "capabilities",
                                            "tools", "serverInfo", "myday-guardian", "2.0.0">>
             /\ message.method = "ping"
                  => (response.kind = "response" /\ response.result = <<>>)
             /\ message.method = "tools/list"
                  => /\ response.kind = "response"
                     /\ Len(response.result) = 5
                     /\ {response.result[k] : k \in 1..5} = FiveTools
             /\ message.method = "notifications/initialized" => response.kind = "null"
             /\ message.method \notin {"initialize", "ping", "tools/list", "tools/call",
                                       "notifications/initialized"}
                  => (response.kind = "response" /\ response.result = "error"
                      /\ response.code = -32601)
    /\ \A i \in 1..Len(mcpExchange.messages) :
          mcpExchange.responses[i].kind = "response"
              => mcpExchange.responses[i].id = mcpExchange.messages[i].id

ToolCallMessages ==
    {i \in Exchanged : mcpExchange.messages[i].method = "tools/call"}

\* C25: for a tools/call message executeTool is invoked only when the
\* requested name is one of the catalog's tools; a missing or unknown name
\* yields a JSON-RPC error without invoking any tool; an exception thrown
\* during tool execution yields a result flagged isError, and neither escapes
\* the handler nor fails the HTTP request.
C25_ToolCallsAreGuarded ==
    \A i \in ToolCallMessages :
        LET message == mcpExchange.messages[i]
            called == mcpExchange.calls[i]
            response == mcpExchange.responses[i]
        IN /\ called.outcome # "none" => (message.name \in FiveTools /\ called.tool = message.name)
           /\ message.name \notin FiveTools
                => (response.kind = "response" /\ response.result = "error"
                    /\ called.outcome = "none")
           /\ called.outcome = "throws"
                => /\ response.kind = "response"
                   /\ response.result = "content"
                   /\ response.isError
                   /\ mcpExchange.status = "200"
                   /\ response \in {mcpExchange.body[k] : k \in 1..Len(mcpExchange.body)}

\* A tool has thrown, an unknown tool was asked for, and both were answered.
C25_Witness ==
    /\ \E i \in ToolCallMessages :
          mcpExchange.calls[i].outcome = "throws" /\ mcpExchange.responses[i].isError
    /\ \E i \in ToolCallMessages :
          mcpExchange.messages[i].name = "delete_user"
          /\ mcpExchange.responses[i].result = "error"

AnswersTo(i) == {k \in 1..Len(stdout) : stdout[k].answers = i}

\* C26: the stdio server writes exactly one response line, carrying the
\* request's id, for each input line whose method is initialize, tools/list,
\* tools/call or ping (once the line's tool call has ended), nothing for
\* notifications/initialized; a line that is not valid JSON is reported on
\* standard error, and the lines after it are processed and answered all the
\* same.
C26_OneResponsePerRequest ==
    \A i \in 1..Len(stdioLines) :
        LET line == stdioLines[i]
        IN /\ (line.json = "object"
               /\ line.method \in {"initialize", "tools/list", "tools/call", "ping"})
                 => /\ Cardinality(AnswersTo(i)) = IF i \in stdioPending THEN 0 ELSE 1
                    /\ \A k \in AnswersTo(i) : stdout[k].id = line.id
           /\ (line.json = "object" /\ line.method = "notifications/initialized")
                 => AnswersTo(i) = {}
           /\ line.json = "invalid"
                 => (AnswersTo(i) = {} /\ \E k \in 1..Len(stderr) : stderr[k] = i)

\* A line that is not JSON was followed by a ping and a tool call, and both
\* have their answer.
C26_Witness ==
    /\ Len(stdioLines) = 3
    /\ stdioLines[1].json = "invalid"
    /\ stdioLines[2].method = "tools/call" /\ stdioLines[2].params
    /\ stdioLines[3].method = "ping"
    /\ AnswersTo(2) # {} /\ AnswersTo(3) # {}
    /\ stderr = <<1>>

\* C27: every top-level chat handler of the bot catches any exception raised
\* while it handles a message, lets none escape, and answers the user with
\* the one fixed recalibrating message, the same text for every handler and
\* every cause.
C27_OneRecalibratingMessage ==
    \A k \in 1..Len(chatReplies) :
        /\ ~chatReplies[k].escaped
        /\ chatReplies[k].text = Recalibrating

Degraded == remoteDb.client = "null"

ConstructedDegraded ==
    /\ \A c \in Credentials :
          (c[1] = "" \/ c[2] = "")
              => /\ ~Constructed(c[1], c[2]).threw
                 /\ Constructed(c[1], c[2]).client = "null"
    /\ Degraded => (~remoteDb.threw /\ ~remoteDb.ready)
    /\ Degraded =>
          \A k \in 1..Len(remoteCalls) :
              remoteCalls[k].method = "waitReady"
                  => (remoteCalls[k].outcome = "resolves" /\ remoteCalls[k].value = "false")

\* C28 as stated: an instance constructed without a URL or key never throws
\* from its constructor, has no client, keeps ready false, its waitReady()
\* resolves false at once; in that mode no data operation returns data, each
\* one fails with an error.
C28_DegradedEveryOperationFails ==
    /\ ConstructedDegraded
    /\ Degraded =>
          \A k \in 1..Len(remoteCalls) :
              remoteCalls[k].method # "waitReady" => remoteCalls[k].outcome = "rejects"

\* C28, amended: the same, except that only the operations that query the
\* store fail with an error; the six legacy helpers resolve their constants.
C28_DegradedQueriesFail ==
    /\ ConstructedDegraded
    /\ Degraded =>
          \A k \in 1..Len(remoteCalls) :
              LET call == remoteCalls[k]
              IN /\ call.method \in QueryMethods => call.outcome = "rejects"
                 /\ call.method \in {"hasProcessedTransaction", "incrementStreak", "resetStreak",
                                     "getTodayStake", "getRecentMoodHistory", "getCompletionRate"}
                       => (call.outcome = "resolves" /\ call.value # "data")

\* A degraded instance has answered waitReady and refused a query.
C28_Witness ==
    /\ Degraded
    /\ Len(remoteCalls) = 2
    /\ remoteCalls[1].method = "waitReady" /\ remoteCalls[1].value = "false"
    /\ remoteCalls[2].method = "saveMissions" /\ remoteCalls[2].outcome = "rejects"

\* The finished calls that returned a keypair, in the order they finished.
KeyReturns ==
    {i \in 1..Len(keyLog) : keyLog[i].outcome = "returned"}

\* The first successful loadOrCreateKeypair call.
FirstKeyReturn ==
    CHOOSE i \in KeyReturns : \A j \in KeyReturns : i <= j

\* Call i was entered after the first successful call had returned.
LaterKeyCall(i) ==
    /\ KeyReturns # {}
    /\ i > FirstKeyReturn
    /\ keyLog[i].started >= FirstKeyReturn

\* Call i found the key file as the first successful call left it.
KeysFileIntact(i) ==
    LET left == KeysJsonStringify(CHOOSE pair \in keyLog[FirstKeyReturn].keys : TRUE)
    IN  \A k \in DOMAIN keyLog[i].found : keyLog[i].found[k] = left

\* C29: every loadOrCreateKeypair call entered after the first successful
\* call has returned, and finding the key file as that call left it,
\* returns the same public and private key, generates no keypair and does
\* not write the key file.
C29_LaterCallsReuseKeypair ==
    \A i \in 1..Len(keyLog) :
        (LaterKeyCall(i) /\ KeysFileIntact(i))
            => /\ keyLog[i].outcome = "returned"
               /\ keyLog[i].keys = keyLog[FirstKeyReturn].keys
               /\ ~keyLog[i].fresh
               /\ ~keyLog[i].wrote

\* A first call created the keypair, and a later call of another run and a
\* later call of the same run both loaded it.
C29_Witness ==
    /\ Len(keyLog) = MaxKeyCalls
    /\ keyLog[1].fresh
    /\ \E i, j \in 2..Len(keyLog) :
           /\ keyLog[i].run = keyLog[1].run
           /\ keyLog[j].run # keyLog[1].run
           /\ LaterKeyCall(i) /\ KeysFileIntact(i)
           /\ LaterKeyCall(j) /\ KeysFileIntact(j)

\* The tier the breakpoints give the average sum / count itself.
PrescribedTier(sum, count) ==
    IF sum > count THEN "positive_strong"
    ELSE IF 10 * sum > 3 * count THEN "positive_mild"
    ELSE IF sum < 0 - count THEN "negative_strong"
    ELSE IF 10 * sum < 0 - 3 * count THEN "negative_mild"
    ELSE "neutral"

\* C30: the correlation type is the tier of the average a of the non-null
\* mood deltas under the breakpoints a > 1.0 positive_strong, 0.3 < a <= 1.0
\* positive_mild, -0.3 <= a <= 0.3 neutral, -1.0 <= a < -0.3 negative_mild,
\* a < -1.0 negative_strong.
C30_TierOfExactAverage ==
    LET deltas == NonNullDeltas(weeklyData)
    IN  (correlation # NotAnalyzed /\ Len(deltas) > 0)
            => correlation.correlationType
                   = PrescribedTier(SumDeltas(deltas), Len(deltas))

BriefingStates ==
    {"mission_briefing_energy", "mission_briefing_goals", "mission_briefing_stake",
     "mission_briefing_confirm"}

\* The steps of the Mission Briefing flow, the last one to the cleared state.
BriefingSteps ==
    {<<"mission_briefing_energy", "mission_briefing_goals">>,
     <<"mission_briefing_goals", "mission_briefing_stake">>,
     <<"mission_briefing_stake", "mission_briefing_confirm">>,
     <<"mission_briefing_confirm", Undef>>}

\* C31: from a Mission Briefing state the flow state changes only by the
\* next step of energy, goals, stake, confirm, cleared, and whatever leaves
\* the flow state where it was leaves the Mission state as it was too.
C31_BriefingStepsOnly ==
    [][(userFlowState \in BriefingStates)
           => (IF userFlowState' # userFlowState
               THEN <<userFlowState, userFlowState'>> \in BriefingSteps
               ELSE userMissionState' = userMissionState)]_vars

\* The user's local time at the clock reading is 20:00.
AtLocalSunset ==
    LET tz == IF Truthy(userRow.timezone) THEN userRow.timezone ELSE "UTC"
        parts == getLocalTimeParts(tz, now)
    IN  parts.valid /\ parts.hour = 20 /\ parts.minute = 0

InRangeNumbers(reply, count) ==
    IF reply = AuditReplyNone THEN {}
    ELSE {v \in UNION {AuditParseInt(reply[k]) : k \in DOMAIN reply} : v >= 1 /\ v <= count}

\* The missions the updates of the run marked completed.
MarkedCompleted ==
    {audit.updates[k].mission : k \in {j \in DOMAIN audit.updates : audit.updates[j].isCompleted}}

\* C33: a handleMissionAudit run that ends with its summary has issued one
\* completion update per mission, in order, marking mission i completed
\* exactly when its number is among the in-range numbers of the reply; the
\* tier is the top one exactly when every mission is marked completed and
\* the lowest exactly when none is; and the flow state is cleared.
C33_AuditMarksAndTier ==
    (audit.pc = "done" /\ todayMissions > 0)
        => /\ Len(audit.updates) = todayMissions
           /\ \A i \in 1..todayMissions :
                  /\ audit.updates[i].mission = i
                  /\ audit.updates[i].isCompleted
                         <=> i \in InRangeNumbers(audit.reply, todayMissions)
           /\ audit.tier = "legendary" <=> MarkedCompleted = 1..todayMissions
           /\ audit.tier = "those_days" <=> MarkedCompleted = {}
           /\ userFlowState = Undef

\* The rows of the user's sunset reflections of the trailing week that the
\* store held when answer a was given.
WeekReflections(a) ==
    {i \in 1..a.rows :
        /\ remote_logs[i].telegram_id = a.telegram_id
        /\ remote_logs[i].log_type = "sunset_reflection"
        /\ remote_logs[i].date > scoreDay - WeeklyLimit}

\* C34: for a user with k >= 1 sunset reflections from the trailing week,
\* the HTTP discipline-score response reports avg_sunset_mood equal to the
\* mean of their moods to one decimal, and for k >= 3 an
\* emotional_stability_index computed from those moods: 100 when they are
\* all equal.
C34_SunsetMoodIsReported ==
    \A a \in scoreAnswers :
        (a.route = "http" /\ a.computed /\ WeekReflections(a) # {})
            => LET moods == [i \in 1..Len(remote_logs) |->
                                NumberOrZero(JsonGet(remote_logs[i].details, "sunset_mood"))]
                   k == Cardinality(WeekReflections(a))
                   sum == SumOver(moods, WeekReflections(a))
                   squares == SumOver([i \in 1..Len(remote_logs) |-> moods[i] * moods[i]],
                                      WeekReflections(a))
               IN  /\ a.sunset.avg_sunset_mood = RoundToTenths(sum, k)
                   /\ k >= 3 => a.sunset.emotional_stability_index
                                    = StabilityIndex(sum, squares, k)
                   /\ (k >= 3 /\ \A i, j \in WeekReflections(a) : moods[i] = moods[j])
                          => a.sunset.emotional_stability_index = 100

\* The texts of the commands the model sends.
CommandTexts == {TextStart.raw, TextSetTimezone("Asia/Kolkata").raw}

\* C35: a command message is handled by its command handler only; it is
\* never also taken as the answer of the current flow step, so no mission
\* title of the Mission state is a command.
C35_CommandsAreNotAnswers ==
    \A i \in DOMAIN userMissionState.missions :
        userMissionState.missions[i] \notin CommandTexts

\* A /settimezone is handled.
SetTimezoneStep == \E tz \in {"Asia/Kolkata"} : BotSetTimezone(tz)

\* C36: /settimezone changes only the stored timezone and an onboarding_city
\* flow state; a user in a Mission Briefing state when it arrives keeps the
\* flow state and the Mission state.
C36_SetTimezoneKeepsOtherFlows ==
    [][(SetTimezoneStep /\ userFlowState \in BriefingStates)
           => (userFlowState' = userFlowState /\ userMissionState' = userMissionState)]_vars

\* C37: the Mission state is present only while the flow state is
\* mission_briefing_goals, mission_briefing_stake or mission_briefing_confirm.
C37_MissionStateOnlyInBriefing ==
    userMissionState.present
        => userFlowState \in {"mission_briefing_goals", "mission_briefing_stake",
                              "mission_briefing_confirm"}

\* The requests the gateway has reported as a verified payment: answered
\* 200, or past verifyPayment on the way to crediting the user.
StakeVerified ==
    {i \in 1..Len(sreq) : \/ sreq[i].status = 200
                          \/ sreq[i].pc \in {"record", "creditRead", "creditWrite"}}

\* C38: whatever amount and fee parameters the caller supplies, GET
\* /x402/stake reports a verified payment, and credits the user, only for a
\* transaction that transferred a strictly positive amount to the vault, of
\* at least 99% of the stake amount the request asks for.
C38_VerifiedCoversAskedAmount ==
    /\ \A i \in StakeVerified :
         /\ sreq[i].amount > 0
         /\ 100 * sreq[i].amount >= 99 * sreq[i].asked
    /\ \A k \in 1..Len(stakeCredits) :
         \E i \in StakeVerified :
            /\ sreq[i].txHash = stakeCredits[k].tx_hash
            /\ stakeCredits[k].amount = sreq[i].amount
            /\ stakeCredits[k].amount > 0
            /\ 100 * stakeCredits[k].amount >= 99 * sreq[i].asked

\* The answers a step adds for MCP get_discipline_score calls that carry a
\* telegram id.
NewMcpScores == {a \in scoreAnswers' \ scoreAnswers : a.route = "mcp" /\ a.telegram_id # 0}

\* C39: in the running server, once the remote store has been initialised
\* successfully, every later MCP tools/call of get_discipline_score with a
\* valid telegram id returns that user's computed score, not the
\* database-unavailable error.
C39_McpScoreAfterStoreReady ==
    [][(apiDb = "ready") =>
          (\A a \in NewMcpScores : a.computed /\ a.code = "result")]_vars

\* The daily_summary rows whose mood_delta is not NULL.
RowsWithDelta == {i \in DOMAIN daily_summary : daily_summary[i].mood_delta # {}}

\* C40: in every reachable state of the local store, each daily_summary row
\* with a non-null mood_delta has evening_mood in 1..5, morning_energy in
\* 1..5 and mood_delta = evening_mood - morning_energy, hence a mood_delta
\* from -4 to 4, whatever sequence of saveDailySummary,
\* recordVerificationAttempt and updateSunsetMood calls produced it.
C40_MoodDeltaIsEveningMinusMorning ==
    \A i \in RowsWithDelta :
        LET r == daily_summary[i]
        IN /\ r.evening_mood # {} /\ r.evening_mood \subseteq 1..5
           /\ r.morning_energy # {} /\ r.morning_energy \subseteq 1..5
           /\ Num(r.mood_delta) = Num(r.evening_mood) - Num(r.morning_energy)
           /\ Num(r.mood_delta) \in (1 - 5)..(5 - 1)
====
